---- MODULE Spec2Model ----
(***************************************************************************)
(* Model of the binary framing protocol engine of SerialManager            *)
(* (src/serial.js): the checksum, the frame built by sendFrame, the stream *)
(* decoder (appendToBuffer, processBuffer, findFrameStart, tryParseFrame)  *)
(* as driven by one iteration of readLoop per chunk, the dispatcher        *)
(* (parseFrame and the two payload decoders), the statistics, the session  *)
(* operations connect, disconnect, sendFrame and resetStatistics, and the  *)
(* read loop (startReading, readLoop) followed from await to await.        *)
(***************************************************************************)
EXTENDS Integers, Sequences, FiniteSets, TLC

(***************************************************************************)
(* Protocol constants (constructor of SerialManager).                      *)
(***************************************************************************)
maxBufferSize == 1024
FRAME_HEADER == 170
FRAME_TAIL == 85
MIN_FRAME_LEN == 5
MAX_DATA_LENGTH == 255
CMD_STATUS == 11
CMD_SET_PROTOCOL == 19
CMD_SENSOR_DATA == 32
CMD_MAPPING_DATA == 33
RESULT_SUCCESS == 0
RESULT_FAIL == 1
KeepOnTrim == 10
SensorPayloadLen == 31
MappingPayloadLen == 61
JointCount == 15

(***************************************************************************)
(* Bounds of the model.                                                    *)
(***************************************************************************)
MaxPayloadLen == 2
MaxGarbageLen == 3
MaxPiece == 3
BurstLen == 1400
BurstSmall == 150
BurstMid == 300
BurstLarge == 600
BurstHuge == 1025
MaxSends == 1
MaxTicks == 1
MaxConnects == 2
SessionPiece == 20
MaxLoops == 2

Byte == 0..255

VARIABLES
    readBuffer,        \* this.readBuffer: the accumulation buffer
    incoming,          \* bytes the device has sent that the transport has not delivered yet
    dispatched,        \* the calls parseFrame(cmdType, data) made so far, each with the
                       \* buffer window it was cut from
    appended,          \* this.readBuffer as appendToBuffer left it in the last iteration
    lastChunk,         \* the chunk reader.read() returned in the last iteration
    overflowed,        \* whether the last appendToBuffer took its overflow branch
    overflowWarnings,  \* number of console.warn('缓冲区溢出...') so far
    errorCalls,        \* number of errorCallback invocations so far
    scenario,          \* what the device was chosen to send (fixed at Init)
    isConnected,       \* this.isConnected
    writer,            \* whether this.writer is non-null
    connects,          \* number of connect() calls so far
    written,           \* the byte arrays writer.write accepted, in order
    sends,             \* the sendFrame calls so far, each with its outcome
    now,               \* the value Date.now() returns
    packetCount,       \* this.packetCount
    updateRate,        \* this.updateRate
    lastUpdateTime,    \* this.lastUpdateTime
    dataCalls,         \* the objects dataCallback was invoked with, in order
    responseCalls,     \* the argument lists responseCallback was invoked with
    routed,            \* for each parseFrame call of dispatched: what it handed to
                       \* the two callbacks and the statistics before and after it
    packetCountMax,    \* the largest value this.packetCount has held so far
    isReading,         \* this.isReading
    reader,            \* this.reader: 0 for null, else the number of the connect()
                       \* call that obtained it
    port,              \* this.port: 0 for null, else the number of the connect()
                       \* call that requested it
    loops,             \* the readLoop() invocations so far: where each stands and
                       \* the reader its pending read was issued on
    timers,            \* number of pending restart timers of startReading
    feeds,             \* the chunks the read loops handed to appendToBuffer, each
                       \* with the state it arrived in
    lastConnect,       \* the last connect() call: whether there was one, whether
                       \* the port was opened, whether the write of enable() was
                       \* fulfilled, and what the call returned
    sessionStart,      \* Len(written) when the last successful connect() began
    faulty,            \* the sinks whose callback raises when it is invoked
    shown,             \* what updateConnectionStatus of the application displayed
                       \* last: "connected" or "disconnected"
    inFlight,          \* the connect() and the disconnect() call in flight: the
                       \* await each is suspended at ("idle" when there is none)
    pendingWrites      \* the sendFrame calls suspended at await writer.write(...)

vars == <<readBuffer, incoming, dispatched, appended, lastChunk, overflowed,
          overflowWarnings, errorCalls, scenario, isConnected, writer, connects,
          written, sends, now, packetCount, updateRate, lastUpdateTime,
          dataCalls, responseCalls, routed, packetCountMax, isReading, reader,
          port, loops, timers, feeds, lastConnect, sessionStart, faulty, shown,
          inFlight, pendingWrites>>

\* The variables of the stream decoder and its observers.
decoderVars == <<readBuffer, incoming, dispatched, appended, lastChunk, overflowed,
                 overflowWarnings, scenario>>

\* The statistics and what the two callbacks received.
dispatchVars == <<packetCount, updateRate, lastUpdateTime, dataCalls,
                  responseCalls, routed, packetCountMax>>

\* The read loops and what they fed.
loopVars == <<isReading, loops, timers, feeds>>

\* The handles, the record of the last connect(), and the calls in flight.
handleVars == <<reader, port, lastConnect, sessionStart, inFlight, pendingWrites>>

\* No connect() and no disconnect() is in flight.
NoneInFlight == [connect |-> "idle", connectId |-> 0, disconnect |-> "idle"]

\* The error callback the application installs ends with
\* updateConnectionStatus(false): what is displayed after errors invocations of
\* errorCallback.
afterErrorSink(display, errors) == IF errors > 0 THEN "disconnected" ELSE display

(***************************************************************************)
(* Helpers over byte sequences.                                            *)
(***************************************************************************)
\* data.reduce((sum, byte) => sum + byte, 0), the sum split in halves to keep
\* the evaluation shallow.
RECURSIVE SumRange(_, _, _)
SumRange(s, lo, hi) ==
    IF lo > hi THEN 0
    ELSE IF lo = hi THEN s[lo]
    ELSE LET mid == (lo + hi) \div 2
         IN  SumRange(s, lo, mid) + SumRange(s, mid + 1, hi)

SumSeq(s) == SumRange(s, 1, Len(s))

\* Uint8Array.prototype.slice(start) with start >= 0 (0-based).
SliceFrom(buf, start) == SubSeq(buf, start + 1, Len(buf))

\* Uint8Array.prototype.slice(-k): the last k elements (all of them when shorter).
SliceLast(buf, k) == IF Len(buf) <= k THEN buf ELSE SubSeq(buf, Len(buf) - k + 1, Len(buf))

\* new Uint8Array(array): every element is stored modulo 256.
ToUint8Array(arr) == [i \in 1..Len(arr) |-> arr[i] % 256]

\* ~x on an int32 operand.
BitNot32(x) == -x - 1

\* x & 0xFF on an int32 operand (two's complement low byte).
BitAnd255(x) == x % 256

(***************************************************************************)
(* calculateChecksum(cmdType, dataLen, data)                               *)
(***************************************************************************)
\* Variant: the one's complement of the sum (the + 1 left out).
calculateChecksumNoIncrement(cmdType, dataLen, data) ==
    BitAnd255(BitNot32(cmdType + dataLen + SumSeq(data)))

calculateChecksum(cmdType, dataLen, data) ==
    LET sumVal == cmdType + dataLen + (IF Len(data) > 0 THEN SumSeq(data) ELSE 0)
    IN  BitAnd255(BitNot32(sumVal) + 1)

(***************************************************************************)
(* sendFrame: the frame array it builds and hands to writer.write.         *)
(***************************************************************************)
\* Variant: the frame is built without its length byte.
sendFrameBytesNoLength(cmdType, data) ==
    ToUint8Array(<<FRAME_HEADER, cmdType>> \o data
                 \o <<calculateChecksum(cmdType, Len(data), data), FRAME_TAIL>>)

sendFrameBytes(cmdType, data) ==
    LET dataLen == Len(data)
        frame == <<FRAME_HEADER, cmdType, dataLen>>
                 \o (IF dataLen > 0 THEN data ELSE <<>>)
                 \o <<calculateChecksum(cmdType, dataLen, data), FRAME_TAIL>>
    IN  ToUint8Array(frame)

\* Variant: no payload is too long to be sent.
exceedsNever(dataLen) == FALSE

\* dataLen > this.MAX_DATA_LENGTH
exceedsMaxDataLength(dataLen) == dataLen > MAX_DATA_LENGTH

\* Variant: only the writer is looked at.
notConnectedWriterOnly(connected, hasWriter) == ~hasWriter

\* !this.isConnected || !this.writer, the test sendFrame and enable() start with.
notConnected(connected, hasWriter) == ~connected \/ ~hasWriter

\* Variant: the frame is handed to the transport one byte per write.
frameWritesByteWise(frame) == [i \in 1..Len(frame) |-> <<frame[i]>>]

\* await this.writer.write(new Uint8Array(frame)): the write calls sendFrame makes
\* for a frame, a single one that holds all of it.
frameWrites(frame) == <<frame>>

\* sendFrame(cmdType, data) on a manager whose isConnected is connected and
\* whose writer is non-null iff hasWriter, when the promise of writer.write is
\* fulfilled iff accepted.  It yields the value returned, the byte arrays the
\* transport accepted, how the write settled and the number of errorCallback
\* invocations; every throw inside it is caught by its own catch block.
sendFrame(connected, hasWriter, cmdType, data, accepted) ==
    IF notConnected(connected, hasWriter)
    THEN [returned |-> FALSE, writes |-> <<>>, settled |-> "none", errors |-> 1]
    ELSE IF exceedsMaxDataLength(Len(data))
    THEN [returned |-> FALSE, writes |-> <<>>, settled |-> "none", errors |-> 1]
    ELSE IF accepted
    THEN [returned |-> TRUE, writes |-> frameWrites(sendFrameBytes(cmdType, data)),
          settled |-> "fulfilled", errors |-> 0]
    ELSE [returned |-> FALSE, writes |-> <<>>, settled |-> "rejected", errors |-> 1]

\* new TextEncoder().encode("frame_enable\n"), the bytes enable() writes.
FrameEnableBytes == <<102, 114, 97, 109, 101, 95, 101, 110, 97, 98, 108, 101, 10>>

\* enable() under the same conventions; it reports no error to errorCallback.
enable(connected, hasWriter, accepted) ==
    IF notConnected(connected, hasWriter)
    THEN [returned |-> FALSE, writes |-> <<>>]
    ELSE IF accepted
    THEN [returned |-> TRUE, writes |-> <<FrameEnableBytes>>]
    ELSE [returned |-> FALSE, writes |-> <<>>]

(***************************************************************************)
(* appendToBuffer(newData): the buffer it leaves, whether it warned of an  *)
(* overflow, and how many times it invoked errorCallback.                  *)
(***************************************************************************)
\* Variant: the new data replaces the buffer instead of being appended to it.
appendToBufferReplacing(buf, newData) ==
    [readBuffer |-> newData,
     overflow |-> Len(buf) + Len(newData) > maxBufferSize,
     errors |-> 0]

\* Variant: on overflow the last 10 buffered bytes are kept.
appendToBufferKeepTail(buf, newData) ==
    LET over == Len(buf) + Len(newData) > maxBufferSize
        base == IF over THEN SliceLast(buf, KeepOnTrim) ELSE buf
    IN  [readBuffer |-> base \o newData, overflow |-> over, errors |-> 0]

\* Variant: on overflow errorCallback is invoked.
appendToBufferReporting(buf, newData) ==
    LET over == Len(buf) + Len(newData) > maxBufferSize
        base == IF over THEN <<>> ELSE buf
    IN  [readBuffer |-> base \o newData, overflow |-> over,
         errors |-> IF over THEN 1 ELSE 0]

appendToBuffer(buf, newData) ==
    LET over == Len(buf) + Len(newData) > maxBufferSize
        base == IF over THEN <<>> ELSE buf
    IN  [readBuffer |-> base \o newData, overflow |-> over, errors |-> 0]

(***************************************************************************)
(* findFrameStart(): 0-based index of the first header byte, or -1.        *)
(***************************************************************************)
\* Variant: the index of the last header byte.
findFrameStartLast(buf) ==
    IF \E i \in 1..Len(buf) : buf[i] = FRAME_HEADER
    THEN (CHOOSE i \in 1..Len(buf) :
              /\ buf[i] = FRAME_HEADER
              /\ \A j \in (i + 1)..Len(buf) : buf[j] # FRAME_HEADER) - 1
    ELSE -1

findFrameStart(buf) ==
    IF \E i \in 1..Len(buf) : buf[i] = FRAME_HEADER
    THEN (CHOOSE i \in 1..Len(buf) :
              /\ buf[i] = FRAME_HEADER
              /\ \A j \in 1..(i - 1) : buf[j] # FRAME_HEADER) - 1
    ELSE -1

(***************************************************************************)
(* tryParseFrame(): the length it returns (0: wait for more data, 1: skip  *)
(* the header byte, otherwise the length of the frame it dispatched) and   *)
(* the parseFrame call it made, with the buffer window the frame was cut   *)
(* from.                                                                   *)
(***************************************************************************)
\* Variant: the frame length counted one byte short.
totalFrameLengthShort(dataLength) == 4 + dataLength

\* const totalFrameLength = 5 + dataLength
totalFrameLengthOf(dataLength) == 5 + dataLength

\* Variant: the tail byte is not checked.
tailIgnored(frameTail) == TRUE

\* frameTail !== this.FRAME_TAIL, negated
tailMatches(frameTail) == frameTail = FRAME_TAIL

\* Variant: the checksum is not checked.
checksumIgnored(cmdType, dataLength, frameData, checksum) == TRUE

\* calculatedChecksum !== checksum, negated
checksumMatches(cmdType, dataLength, frameData, checksum) ==
    calculateChecksum(cmdType, dataLength, frameData) = checksum

\* Variant: a rejected candidate is skipped whole.
rejectedWholeCandidate(totalFrameLength) == totalFrameLength

\* Variant: a rejected candidate is treated as incomplete (wait for more data).
rejectedAsIncomplete(totalFrameLength) == 0

\* Variant: a rejected candidate loses its header byte and its command byte.
rejectedHeaderAndType(totalFrameLength) == 2

\* The value returned for a complete candidate of totalFrameLength bytes whose
\* tail or checksum is wrong: return 1 (skip the header byte).
rejectedFrameLength(totalFrameLength) == 1

tryParseFrame(buf) ==
    IF Len(buf) < MIN_FRAME_LEN THEN [frameLength |-> 0, calls |-> <<>>]
    ELSE IF buf[1] # FRAME_HEADER THEN [frameLength |-> 0, calls |-> <<>>]
    ELSE IF Len(buf) < 3 THEN [frameLength |-> 0, calls |-> <<>>]
    ELSE
      LET cmdType == buf[2]
          dataLength == buf[3]
          totalFrameLength == totalFrameLengthOf(dataLength)
      IN  IF dataLength > MAX_DATA_LENGTH THEN [frameLength |-> 1, calls |-> <<>>]
          ELSE IF Len(buf) < totalFrameLength THEN [frameLength |-> 0, calls |-> <<>>]
          ELSE
            LET frameData == SubSeq(buf, 4, 3 + dataLength)
                checksum == buf[3 + dataLength + 1]
                frameTail == buf[3 + dataLength + 2]
            IN  IF ~tailMatches(frameTail)
                THEN [frameLength |-> rejectedFrameLength(totalFrameLength),
                      calls |-> <<>>]
                ELSE IF ~checksumMatches(cmdType, dataLength, frameData, checksum)
                THEN [frameLength |-> rejectedFrameLength(totalFrameLength),
                      calls |-> <<>>]
                ELSE [frameLength |-> totalFrameLength,
                      calls |-> << [cmdType |-> cmdType, data |-> frameData,
                                    window |-> SubSeq(buf, 1, 3 + dataLength + 2)] >>]

(***************************************************************************)
(* processBuffer(): one pass of the body of its while loop on the loop     *)
(* state (the buffer, the parseFrame calls made so far, and whether the    *)
(* loop is still running: false after a break or when the loop condition   *)
(* readBuffer.length > 0 fails).                                           *)
(***************************************************************************)
\* Variant: a buffer without header is never cut.
trimNever(buf) == buf

\* Variant: a buffer without header is cut only when it is longer than the capacity.
trimHeaderlessAtCapacity(buf) ==
    IF Len(buf) > maxBufferSize THEN SliceLast(buf, KeepOnTrim) ELSE buf

\* No header in the buffer: keep it, or only its last 10 bytes when it is longer
\* than maxBufferSize / 2 (length > 512, i.e. 2 * length > maxBufferSize).
trimHeaderless(buf) ==
    IF 2 * Len(buf) > maxBufferSize THEN SliceLast(buf, KeepOnTrim) ELSE buf

\* Variant: the bytes of a parsed or skipped candidate stay in the buffer.
removeProcessedNothing(buf, frameLength) == buf

\* this.readBuffer.slice(frameLength), the buffer after a pass whose tryParseFrame
\* returned frameLength > 0.
removeProcessed(buf, frameLength) == SliceFrom(buf, frameLength)

\* Variant: the frame found in a pass is dispatched ahead of those of the passes
\* before it.
callsNewestFirst(calls, found) == found \o calls

\* this.parseFrame(cmdType, frameData) is called inside tryParseFrame, before the
\* pass ends: the calls of a pass follow those of the passes before it.
callsInPassOrder(calls, found) == calls \o found

processBufferStep(s) ==
    IF ~s.running THEN s
    ELSE IF Len(s.readBuffer) = 0 THEN [s EXCEPT !.running = FALSE]
    ELSE
      LET buf == s.readBuffer
          frameStart == findFrameStart(buf)
      IN  IF frameStart = -1
          THEN [s EXCEPT !.readBuffer = trimHeaderless(buf), !.running = FALSE]
          ELSE LET cut == IF frameStart > 0 THEN SliceFrom(buf, frameStart) ELSE buf
                   r == tryParseFrame(cut)
               IN  IF r.frameLength > 0
                   THEN [s EXCEPT !.readBuffer = removeProcessed(cut, r.frameLength),
                                  !.calls = callsInPassOrder(s.calls, r.calls)]
                   ELSE [s EXCEPT !.readBuffer = cut, !.running = FALSE]

\* n passes of the loop body, split in halves to keep the evaluation shallow.
RECURSIVE processBufferPasses(_, _)
processBufferPasses(s, n) ==
    IF n = 0 THEN s
    ELSE IF n = 1 THEN processBufferStep(s)
    ELSE LET half == processBufferPasses(s, n \div 2)
         IN  IF half.running THEN processBufferPasses(half, n - n \div 2) ELSE half

\* The whole loop: every pass that does not stop it removes at least one byte, so
\* Len(buf) + 1 passes reach the end of the loop (running is FALSE in the result).
processBuffer(buf) ==
    processBufferPasses([readBuffer |-> buf, calls |-> <<>>, running |-> TRUE],
                        Len(buf) + 1)

(***************************************************************************)
(* JavaScript values and arithmetic used by the dispatcher.                *)
(***************************************************************************)
\* The value undefined, which an Array yields outside its indices.
Undefined == -1

\* data[i] on an Array, i 0-based.
At(data, i) == IF i >= 0 /\ i < Len(data) THEN data[i + 1] ELSE Undefined

\* ToInt32 on a byte or undefined (the operand conversion of | and <<, and of
\* storing into a Uint8Array): undefined becomes 0.
ToInt32(v) == IF v = Undefined THEN 0 ELSE v

\* a | b on non-negative int32 operands.
RECURSIVE BitOr(_, _)
BitOr(a, b) ==
    IF a = 0 THEN b
    ELSE IF b = 0 THEN a
    ELSE (IF a % 2 = 1 \/ b % 2 = 1 THEN 1 ELSE 0) + 2 * BitOr(a \div 2, b \div 2)

\* x << k for a byte x and k <= 8 (no bit reaches the sign).
ShiftLeft(x, k) == x * 2 ^ k

\* Math.round(a / b) for positive integers a and b: the nearest integer, a half
\* rounded up.
MathRoundQuotient(a, b) == (2 * a + b) \div (2 * b)

\* Variant: the high byte comes first.
uint16AtBigEndian(data, idx) ==
    BitOr(ToInt32(At(data, idx + 1)), ShiftLeft(ToInt32(At(data, idx)), 8))

\* data[idx] | (data[idx + 1] << 8)
uint16At(data, idx) ==
    BitOr(ToInt32(At(data, idx)), ShiftLeft(ToInt32(At(data, idx + 1)), 8))

(***************************************************************************)
(* DataView.getFloat32 on four bytes.  A JavaScript number holds every     *)
(* binary32 value exactly; the model writes a finite one as                *)
(* (-1)^sign * sig * 2^pow with sig odd, or sig = 0 and pow = 0 for zero.  *)
(***************************************************************************)
\* sig * 2^pow with the factors of two moved from sig to pow.
RECURSIVE Normalised(_, _)
Normalised(sig, pow) ==
    IF sig = 0 THEN [sig |-> 0, pow |-> 0]
    ELSE IF sig % 2 = 0 THEN Normalised(sig \div 2, pow + 1)
    ELSE [sig |-> sig, pow |-> pow]

\* The number with sign bit s, biased exponent e and fraction m of a binary32.
Float32Value(s, e, m) ==
    IF e = 255
    THEN IF m = 0 THEN [kind |-> "infinity", sign |-> s, sig |-> 0, pow |-> 0]
                  ELSE [kind |-> "nan", sign |-> 0, sig |-> 0, pow |-> 0]
    ELSE LET n == IF e = 0 THEN Normalised(m, -149)
                           ELSE Normalised(8388608 + m, e - 150)
         IN  [kind |-> "finite", sign |-> s, sig |-> n.sig, pow |-> n.pow]

\* Variant: the four bytes are read with the most significant byte first.
getFloat32BigEndian(bytes) ==
    Float32Value(bytes[1] \div 128,
                 (bytes[1] % 128) * 2 + bytes[2] \div 128,
                 (bytes[2] % 128) * 65536 + bytes[3] * 256 + bytes[4])

\* view.getFloat32(0, true): bytes[4] holds the sign and the high exponent bits.
getFloat32(bytes) ==
    Float32Value(bytes[4] \div 128,
                 (bytes[4] % 128) * 2 + bytes[3] \div 128,
                 (bytes[3] % 128) * 65536 + bytes[2] * 256 + bytes[1])

\* new Uint8Array([data[idx], data[idx + 1], data[idx + 2], data[idx + 3]])
float32Bytes(data, idx) ==
    ToUint8Array(<<ToInt32(At(data, idx)), ToInt32(At(data, idx + 1)),
                   ToInt32(At(data, idx + 2)), ToInt32(At(data, idx + 3))>>)

(***************************************************************************)
(* The dispatcher works on the record st of what it can change: the three  *)
(* statistics, the calls made to dataCallback and responseCallback, and    *)
(* the number of errorCallback invocations.  t is what Date.now() returns. *)
(***************************************************************************)
\* Variant: what a sink raises is swallowed without a report.
sinkFailureSwallowed(raising, sink) == 0

\* The errorCallback invocations of the catch block around a call of sink
\* ("data" or "response"): one when the sink raises.
sinkFailureReported(raising, sink) == IF sink \in raising THEN 1 ELSE 0

updateStatistics(st, t) ==
    LET timeDiff == t - st.lastUpdateTime
    IN  [st EXCEPT !.updateRate = IF timeDiff > 0 THEN MathRoundQuotient(1000, timeDiff)
                                                  ELSE @,
                   !.lastUpdateTime = t]

\* Variant: the counter has a single bit and wraps to 0.
packetCountOneBit(n) == (n + 1) % 2

\* this.packetCount++ : the value the counter takes.
packetCountIncremented(n) == n + 1

\* Variant: no sensor payload is too short.
sensorTooShortNever(data) == FALSE

\* data.length < 31
sensorTooShort(data) == Len(data) < SensorPayloadLen

\* data.length < 61
mappingTooShort(data) == Len(data) < MappingPayloadLen

parseSensorDataFrame(data, st, t) ==
    IF sensorTooShort(data) THEN st
    ELSE
      LET hand == At(data, 0)
          sensorData == [i \in 1..JointCount |-> uint16At(data, 1 + (i - 1) * 2)]
          jointData ==
            [hand |-> hand,
             thumbYaw |-> sensorData[1], thumbPitch |-> sensorData[2],
             thumbTip |-> sensorData[3],
             indexYaw |-> sensorData[4], indexPitch |-> sensorData[5],
             indexTip |-> sensorData[6],
             middleYaw |-> sensorData[7], middlePitch |-> sensorData[8],
             middleTip |-> sensorData[9],
             ringYaw |-> sensorData[10], ringPitch |-> sensorData[11],
             ringTip |-> sensorData[12],
             pinkyYaw |-> sensorData[13], pinkyPitch |-> sensorData[14],
             pinkyTip |-> sensorData[15],
             sensorData |-> sensorData,
             timestamp |-> t,
             packetNumber |-> st.packetCount]
      IN  [st EXCEPT !.packetCount = packetCountIncremented(@),
                     !.dataCalls = Append(@, jointData),
                     !.errors = @ + sinkFailureReported(st.faulty, "data")]

parseMappingDataFrame(data, st, t) ==
    IF mappingTooShort(data) THEN st
    ELSE
      LET hand == At(data, 0)
          mappingData == [i \in 1..JointCount |->
                            getFloat32(float32Bytes(data, 1 + (i - 1) * 4))]
          mappingDataObj ==
            [hand |-> hand,
             thumbYaw |-> mappingData[1], thumbPitch |-> mappingData[2],
             thumbTip |-> mappingData[3],
             indexYaw |-> mappingData[4], indexPitch |-> mappingData[5],
             indexTip |-> mappingData[6],
             middleYaw |-> mappingData[7], middlePitch |-> mappingData[8],
             middleTip |-> mappingData[9],
             ringYaw |-> mappingData[10], ringPitch |-> mappingData[11],
             ringTip |-> mappingData[12],
             pinkyYaw |-> mappingData[13], pinkyPitch |-> mappingData[14],
             pinkyTip |-> mappingData[15],
             mappingData |-> mappingData,
             timestamp |-> t,
             packetNumber |-> st.packetCount]
      IN  [st EXCEPT !.packetCount = packetCountIncremented(@),
                     !.dataCalls = Append(@, mappingDataObj),
                     !.errors = @ + sinkFailureReported(st.faulty, "data")]

\* Variant: an empty payload counts as success.
resultCodeOfEmptyIsSuccess(data) == IF Len(data) > 0 THEN data[1] ELSE RESULT_SUCCESS

\* data.length > 0 ? data[0] : this.COMMANDS.RESULT_FAIL
resultCodeOf(data) == IF Len(data) > 0 THEN data[1] ELSE RESULT_FAIL

\* data.length > 1 ? data.slice(1) : []
extraDataOf(data) == IF Len(data) > 1 THEN SubSeq(data, 2, Len(data)) ELSE <<>>

\* Variant: only the code FAIL is an error.
statusOfFailOnly(result) == IF result = RESULT_FAIL THEN "error" ELSE "ok"

\* The first argument of responseCallback for a result code.
statusOf(result) == IF result = RESULT_SUCCESS THEN "ok" ELSE "error"

\* Variant: no frame is taken for a mapping notification.
isMappingDataNever(cmdType) == FALSE

\* cmdType === this.COMMANDS.CMD_MAPPING_DATA
isMappingData(cmdType) == cmdType = CMD_MAPPING_DATA

\* cmdType === this.COMMANDS.CMD_SENSOR_DATA
isSensorData(cmdType) == cmdType = CMD_SENSOR_DATA

parseFrame(cmdType, data, st, t) ==
    LET st1 == updateStatistics(st, t)
    IN  IF isSensorData(cmdType) THEN parseSensorDataFrame(data, st1, t)
        ELSE IF isMappingData(cmdType) THEN parseMappingDataFrame(data, st1, t)
        ELSE LET result == resultCodeOf(data)
                 extraData == extraDataOf(data)
             IN  [st1 EXCEPT !.responseCalls =
                    Append(@, [status |-> statusOf(result), cmdType |-> cmdType,
                               extraData |-> extraData]),
                             !.errors = @ + sinkFailureReported(st1.faulty, "response")]

\* The three statistics of a dispatcher record.
StatisticsOf(st) ==
    [packetCount |-> st.packetCount, updateRate |-> st.updateRate,
     lastUpdateTime |-> st.lastUpdateTime]

\* One parseFrame call, with its entry of the routed log.
parseFrameLogged(call, st, t) ==
    LET after == parseFrame(call.cmdType, call.data, st, t)
    IN  [after EXCEPT !.routed =
           Append(@, [before |-> StatisticsOf(st),
                      after |-> StatisticsOf(after),
                      data |-> SubSeq(after.dataCalls, Len(st.dataCalls) + 1,
                                      Len(after.dataCalls)),
                      response |-> SubSeq(after.responseCalls,
                                          Len(st.responseCalls) + 1,
                                          Len(after.responseCalls))])]

\* The parseFrame calls calls[lo..hi] in order, split in halves to keep the
\* evaluation shallow.
RECURSIVE parseFrames(_, _, _, _, _)
parseFrames(calls, lo, hi, st, t) ==
    IF lo > hi THEN st
    ELSE IF lo = hi THEN parseFrameLogged(calls[lo], st, t)
    ELSE LET mid == (lo + hi) \div 2
         IN  parseFrames(calls, mid + 1, hi, parseFrames(calls, lo, mid, st, t), t)

(***************************************************************************)
(* What the device sends.  A scenario fixes the byte stream: pre (noise or *)
(* a corrupted frame) followed by the frames of follow, each as sendFrame  *)
(* builds it.  corrupt names the frame pre was obtained from by one bit    *)
(* flip (kind "corrupt" only).                                             *)
(***************************************************************************)
CmdTypes == {CMD_STATUS, 83, 85}
PayloadBytes == {0, 170}
GarbageBytes == {0, 86, 170}

SeqsUpTo(S, n) == UNION {[1..k -> S] : k \in 0..n}

Payloads == SeqsUpTo(PayloadBytes, MaxPayloadLen)
BigPayload == [i \in 1..MAX_DATA_LENGTH |-> 0]
Garbage == SeqsUpTo(GarbageBytes, MaxGarbageLen) \ {<<>>}

Frames == [cmdType : CmdTypes, data : Payloads]
BigFrames == [cmdType : CmdTypes, data : {BigPayload}]
ShortFrames == [cmdType : CmdTypes, data : SeqsUpTo(PayloadBytes, 1)]
StatusFrame == [cmdType |-> CMD_STATUS, data |-> <<>>]
NoFrame == [cmdType |-> 0, data |-> <<>>]

Encode(f) == sendFrameBytes(f.cmdType, f.data)

\* The frames of fs one after the other.
RECURSIVE FollowBytes(_)
FollowBytes(fs) == IF fs = <<>> THEN <<>> ELSE Encode(Head(fs)) \o FollowBytes(Tail(fs))

\* One bit of a byte inverted.
FlipBit(b, k) == IF (b \div (2 ^ k)) % 2 = 1 THEN b - 2 ^ k ELSE b + 2 ^ k

\* The frame bytes with bit k of the byte at (1-based) index pos inverted.
Corrupted(bytes, pos, k) == [bytes EXCEPT ![pos] = FlipBit(bytes[pos], k)]

FrameScenarios ==
    {[kind |-> "frame", pre |-> <<>>, corrupt |-> NoFrame, follow |-> <<f>>] :
        f \in Frames \cup BigFrames}

GarbageScenarios ==
    {[kind |-> "garbage", pre |-> g, corrupt |-> NoFrame, follow |-> <<f>>] :
        g \in Garbage, f \in ShortFrames}

\* pos ranges over the payload bytes (4 .. 3+n) and the checksum byte (4+n).
CorruptScenarios ==
    UNION {
      {[kind |-> "corrupt",
        pre |-> Corrupted(Encode(f), pos, k),
        corrupt |-> [cmdType |-> f.cmdType,
                     data |-> SubSeq(Corrupted(Encode(f), pos, k), 4, 3 + Len(f.data))],
        follow |-> fs] :
          pos \in 4..(4 + Len(f.data)), k \in 0..7,
          fs \in {<<>>, <<StatusFrame>>}} :
      f \in Frames}

BurstPattern(name, i) ==
    CASE name = "zeros"   -> 0
      [] name = "stall"   -> IF i = 1 THEN FRAME_HEADER ELSE IF i = 3 THEN 255 ELSE 0
      [] name = "sparse"  -> IF i % 7 = 1 THEN FRAME_HEADER ELSE 0
      [] name = "headers" -> FRAME_HEADER

BurstNames == {"zeros", "stall", "sparse", "headers"}

BurstScenarios ==
    {[kind |-> "burst",
      pre |-> [i \in 1..BurstLen |-> BurstPattern(name, i)],
      corrupt |-> NoFrame,
      follow |-> fs] :
        name \in BurstNames, fs \in {<<>>, <<StatusFrame>>}}

Stream(sc) == sc.pre \o FollowBytes(sc.follow)

\* What Date.now() returns when the manager is constructed (milliseconds; any
\* value far above 1000, as the time since 1970 is).
ClockStart == 1000000

(***************************************************************************)
(* Initial state of the decoder runs: the manager has connected (connect() *)
(* emptied the buffer, set lastUpdateTime and sent the enable command) and *)
(* startReading() has started the read loop, which is about to read;       *)
(* nothing has been dispatched, and the device is about to send the stream *)
(* of the scenario.                                                        *)
(***************************************************************************)
InitConnected(scenarios, faults) ==
    /\ scenario \in scenarios
    /\ faulty \in faults
    /\ isReading = TRUE
    /\ reader = 1
    /\ port = 1
    /\ loops = << [pc |-> "read", on |-> 1, failed |-> FALSE, stopped |-> FALSE,
                   done |-> FALSE] >>
    /\ timers = 0
    /\ feeds = <<>>
    /\ lastConnect = [called |-> TRUE, opened |-> TRUE, enableAccepted |-> TRUE,
                      returned |-> TRUE]
    /\ sessionStart = 0
    /\ shown = "connected"
    /\ inFlight = NoneInFlight
    /\ pendingWrites = <<>>
    /\ incoming = Stream(scenario)
    /\ readBuffer = <<>>
    /\ dispatched = <<>>
    /\ appended = <<>>
    /\ lastChunk = <<>>
    /\ overflowed = FALSE
    /\ overflowWarnings = 0
    /\ errorCalls = 0
    /\ isConnected = TRUE
    /\ writer = TRUE
    /\ connects = 1
    /\ written = <<FrameEnableBytes>>
    /\ sends = <<>>
    /\ now = ClockStart
    /\ packetCount = 0
    /\ updateRate = 0
    /\ lastUpdateTime = ClockStart
    /\ dataCalls = <<>>
    /\ responseCalls = <<>>
    /\ routed = <<>>
    /\ packetCountMax = 0

\* The same with sinks that return normally.
InitWith(scenarios) == InitConnected(scenarios, {{}})

Init == InitWith(FrameScenarios \cup GarbageScenarios \cup CorruptScenarios)

InitBurst == InitWith(BurstScenarios)

(***************************************************************************)
(* What readLoop does with a chunk: reader.read() has returned the next n  *)
(* bytes of the stream (n >= 1), then appendToBuffer(value) and            *)
(* processBuffer(), whose tryParseFrame calls parseFrame for every         *)
(* validated frame.  This is synchronous: Date.now() is taken to return    *)
(* the same value in all of its parseFrame calls.  The callbacks are       *)
(* installed; those of faulty raise when they are invoked, and             *)
(* errorCallback returns normally.                                         *)
(***************************************************************************)
ReadValue(n) ==
    /\ n >= 1
    /\ n <= Len(incoming)
    /\ \E value \in {SubSeq(incoming, 1, n)} :
       \E a \in {appendToBuffer(readBuffer, value)} :
       \E p \in {processBuffer(a.readBuffer)} :
       \E st \in {[packetCount |-> packetCount, updateRate |-> updateRate,
                   lastUpdateTime |-> lastUpdateTime, dataCalls |-> dataCalls,
                   responseCalls |-> responseCalls, routed |-> routed,
                   errors |-> 0, faulty |-> faulty]} :
       \E d \in {parseFrames(p.calls, 1, Len(p.calls), st, now)} :
           /\ readBuffer' = p.readBuffer
           /\ dispatched' = dispatched \o p.calls
           /\ appended' = a.readBuffer
           /\ lastChunk' = value
           /\ overflowed' = a.overflow
           /\ overflowWarnings' = overflowWarnings + (IF a.overflow THEN 1 ELSE 0)
           /\ errorCalls' = errorCalls + a.errors + d.errors
           /\ shown' = afterErrorSink(shown, a.errors + d.errors)
           /\ incoming' = SubSeq(incoming, n + 1, Len(incoming))
           /\ packetCount' = d.packetCount
           /\ updateRate' = d.updateRate
           /\ lastUpdateTime' = d.lastUpdateTime
           /\ dataCalls' = d.dataCalls
           /\ responseCalls' = d.responseCalls
           /\ routed' = d.routed
           /\ packetCountMax' = IF d.packetCount > packetCountMax THEN d.packetCount
                                                                  ELSE packetCountMax

(***************************************************************************)
(* One iteration of readLoop in a session that stays connected: the while  *)
(* test passes, the read returns n bytes, they are processed, and the loop *)
(* is back at its read.                                                    *)
(***************************************************************************)
Feed(n) ==
    /\ isConnected
    /\ ReadValue(n)
    /\ UNCHANGED <<scenario, isConnected, writer, connects, written, sends, now,
                   faulty>>
    /\ UNCHANGED loopVars
    /\ UNCHANGED handleVars

\* The transport delivers a piece of at most MaxPiece bytes, or all that is left.
PieceSizes == (1..MaxPiece) \cup {Len(incoming)}

Next == \E n \in PieceSizes : Feed(n)

Spec == Init /\ [][Next]_vars

\* The transport delivers large chunks.
BurstSizes == {BurstSmall, BurstMid, BurstLarge, BurstHuge, Len(incoming)}

NextBurst == \E n \in BurstSizes : Feed(n)

SpecBurst == InitBurst /\ [][NextBurst]_vars

\* The transport delivers chunks of half the capacity, one byte more than that,
\* or small ones.
TrimSizes == {maxBufferSize \div 2, maxBufferSize \div 2 + 1, BurstSmall, Len(incoming)}

NextTrim == \E n \in TrimSizes : Feed(n)

SpecTrim == InitBurst /\ [][NextTrim]_vars

(***************************************************************************)
(* Frames for the dispatcher: command acknowledgments with every result    *)
(* code, and sensor and mapping notifications of exact, longer and short   *)
(* length.                                                                 *)
(***************************************************************************)
NotificationCmds == {CMD_SENSOR_DATA, CMD_MAPPING_DATA}

\* Command types of acknowledgments, the neighbours of the notification codes
\* among them.
AckCmds == {CMD_STATUS, CMD_SET_PROTOCOL, 31, 34}

\* An acknowledgment payload: a result code alone, or followed by extra bytes.
AckPayloads ==
    {<<>>} \cup {<<r>> : r \in Byte} \cup {<<r, 7, FRAME_HEADER>> : r \in {0, 1, 253, 254, 255}}

AckFrames ==
    [cmdType : {CMD_STATUS}, data : AckPayloads]
    \cup [cmdType : AckCmds, data : {<<>>, <<RESULT_SUCCESS>>, <<RESULT_FAIL, 9>>}]

\* Joint byte patterns of a sensor payload, as functions of the 1-based byte
\* index after the hand byte.
SensorPatternNames == {"first", "ramp", "high", "full"}

SensorPattern(name, i) ==
    CASE name = "first" -> IF i = 1 THEN 1 ELSE 0
      [] name = "ramp"  -> (i * 9) % 256
      [] name = "high"  -> IF i % 2 = 0 THEN 128 + i ELSE 0
      [] name = "full"  -> 255

SensorPayload(hand, name, len) ==
    [i \in 1..len |-> IF i = 1 THEN hand ELSE SensorPattern(name, i - 1)]

HandBytes == {0, 1, 255}

SensorLengths == {0, 1, SensorPayloadLen - 1, SensorPayloadLen, SensorPayloadLen + 1}

SensorFrames ==
    {[cmdType |-> CMD_SENSOR_DATA, data |-> SensorPayload(h, name, len)] :
        h \in HandBytes, name \in SensorPatternNames, len \in SensorLengths}

\* Binary32 encodings, least significant byte first, with the numbers they
\* stand for: 0.5, 1.0, -2.0, 100.25, 0, -0, the largest finite value, the
\* smallest subnormal, +Infinity and a NaN.
Float32Samples ==
    { [bytes |-> <<0, 0, 0, 63>>,
       value |-> [kind |-> "finite", sign |-> 0, sig |-> 1, pow |-> -1]],
      [bytes |-> <<0, 0, 128, 63>>,
       value |-> [kind |-> "finite", sign |-> 0, sig |-> 1, pow |-> 0]],
      [bytes |-> <<0, 0, 0, 192>>,
       value |-> [kind |-> "finite", sign |-> 1, sig |-> 1, pow |-> 1]],
      [bytes |-> <<0, 128, 200, 66>>,
       value |-> [kind |-> "finite", sign |-> 0, sig |-> 401, pow |-> -2]],
      [bytes |-> <<0, 0, 0, 0>>,
       value |-> [kind |-> "finite", sign |-> 0, sig |-> 0, pow |-> 0]],
      [bytes |-> <<0, 0, 0, 128>>,
       value |-> [kind |-> "finite", sign |-> 1, sig |-> 0, pow |-> 0]],
      [bytes |-> <<255, 255, 127, 127>>,
       value |-> [kind |-> "finite", sign |-> 0, sig |-> 16777215, pow |-> 104]],
      [bytes |-> <<1, 0, 0, 0>>,
       value |-> [kind |-> "finite", sign |-> 0, sig |-> 1, pow |-> -149]],
      [bytes |-> <<0, 0, 128, 127>>,
       value |-> [kind |-> "infinity", sign |-> 0, sig |-> 0, pow |-> 0]],
      [bytes |-> <<0, 0, 192, 127>>,
       value |-> [kind |-> "nan", sign |-> 0, sig |-> 0, pow |-> 0]] }

Half == [bytes |-> <<0, 0, 0, 63>>,
         value |-> [kind |-> "finite", sign |-> 0, sig |-> 1, pow |-> -1]]

\* A mapping payload of len bytes: the hand byte, then the encoding of sample
\* first at joint k and of sample rest at the other joints (cut or padded with
\* zero bytes to len).
MappingPayload(hand, first, k, rest, len) ==
    [i \in 1..len |->
        IF i = 1 THEN hand
        ELSE IF i > 1 + 4 * JointCount THEN 0
        ELSE LET joint == ((i - 2) \div 4) + 1
                 byte == ((i - 2) % 4) + 1
             IN  IF joint = k THEN first.bytes[byte] ELSE rest.bytes[byte]]

MappingLengths == {0, SensorPayloadLen, MappingPayloadLen - 1, MappingPayloadLen,
                   MappingPayloadLen + 1}

MappingFrames ==
    {[cmdType |-> CMD_MAPPING_DATA, data |-> MappingPayload(h, f, k, Half, len)] :
        h \in {0, 1}, f \in Float32Samples, k \in {1, 8, JointCount},
        len \in {MappingPayloadLen, MappingPayloadLen + 1}}
    \cup {[cmdType |-> CMD_MAPPING_DATA, data |-> MappingPayload(1, f, 1, f, len)] :
        f \in Float32Samples, len \in MappingLengths}

\* The frame that follows another in a stream of two.
FollowerFrames ==
    { [cmdType |-> CMD_STATUS, data |-> <<RESULT_SUCCESS, 5>>],
      [cmdType |-> CMD_SENSOR_DATA, data |-> SensorPayload(1, "ramp", SensorPayloadLen)] }

DispatchScenarios ==
    {[kind |-> "dispatch", pre |-> <<>>, corrupt |-> NoFrame, follow |-> <<f>>] :
        f \in AckFrames \cup SensorFrames \cup MappingFrames}
    \cup {[kind |-> "dispatch", pre |-> <<>>, corrupt |-> NoFrame, follow |-> <<f, g>>] :
        f \in AckFrames \cup SensorFrames \cup MappingFrames, g \in FollowerFrames}

InitDispatch == InitWith(DispatchScenarios)

\* The transport delivers pieces of SessionPiece bytes, or all that is left.
SessionSizes == {SessionPiece, Len(incoming)}

NextDispatch == \E n \in SessionSizes : Feed(n)

SpecDispatch == InitDispatch /\ [][NextDispatch]_vars

(***************************************************************************)
(* The session operations of one SerialManager.                            *)
(***************************************************************************)
\* connect().  outcome tells how requestPort() and port.open() went: "opened",
\* "cancelled" (the user dismissed the port chooser: NotFoundError or
\* AbortError) or "failed" (any other rejection); enableAccepted tells whether
\* the write of enable() is fulfilled.
\* Variant: connect() returns what enable() returned.
connectReturnsEnableResult(opened, enabled) == opened /\ enabled

\* What connect() returns: true once the port is open, whatever enable() returned
\* (its result is not looked at), false from the catch block.
connectReturns(opened, enabled) == opened

Connect(outcome, enableAccepted) ==
    /\ connects < MaxConnects
    /\ connects' = connects + 1
    /\ IF outcome = "opened"
       THEN /\ port' = connects + 1
            /\ reader' = connects + 1
            /\ writer' = TRUE
            /\ readBuffer' = <<>>
            /\ isConnected' = TRUE
            /\ lastUpdateTime' = now
            /\ written' = written \o enable(TRUE, TRUE, enableAccepted).writes
            /\ lastConnect' = [called |-> TRUE, opened |-> TRUE,
                               enableAccepted |-> enableAccepted,
                               returned |-> connectReturns(
                                   TRUE, enable(TRUE, TRUE, enableAccepted).returned)]
            /\ sessionStart' = Len(written)
            /\ UNCHANGED <<errorCalls, shown>>
       ELSE /\ port' = IF outcome = "failed" THEN connects + 1 ELSE port
            /\ isConnected' = FALSE
            /\ errorCalls' = errorCalls + (IF outcome = "cancelled" THEN 0 ELSE 1)
            /\ shown' = afterErrorSink(shown, IF outcome = "cancelled" THEN 0 ELSE 1)
            /\ lastConnect' = [called |-> TRUE, opened |-> FALSE,
                               enableAccepted |-> FALSE,
                               returned |-> connectReturns(FALSE, FALSE)]
            /\ UNCHANGED <<reader, writer, readBuffer, lastUpdateTime, written,
                           sessionStart>>
    /\ UNCHANGED <<incoming, dispatched, appended, lastChunk, overflowed,
                   overflowWarnings, scenario, sends, now, packetCount,
                   updateRate, dataCalls, responseCalls, routed, packetCountMax,
                   faulty, inFlight, pendingWrites>>
    /\ UNCHANGED loopVars

\* A loop that disconnect() finds alive is marked stopped; when cancelled holds
\* (reader.cancel() settled the pending reads of this.reader with done) a loop
\* whose read is pending on this.reader takes its done branch and ends.
loopAfterDisconnect(loop, rdr, cancelled) ==
    IF loop.pc = "exited" THEN loop
    ELSE IF cancelled /\ rdr # 0 /\ loop.pc = "read" /\ loop.on = rdr
    THEN [loop EXCEPT !.pc = "exited", !.stopped = TRUE, !.done = TRUE]
    ELSE [loop EXCEPT !.stopped = TRUE]

\* disconnect().  Each of reader.cancel(), writer.close() and port.close() may
\* be rejected: the handles are set to null after the catch block in every case.
\* Only the outcome of reader.cancel() changes what follows.
Disconnect ==
    /\ isConnected' = FALSE
    /\ isReading' = FALSE
    /\ reader' = 0
    /\ writer' = FALSE
    /\ port' = 0
    /\ readBuffer' = <<>>
    /\ \E cancelled \in BOOLEAN :
          loops' = [l \in 1..Len(loops) |-> loopAfterDisconnect(loops[l], reader, cancelled)]
    /\ UNCHANGED <<incoming, dispatched, appended, lastChunk, overflowed,
                   overflowWarnings, errorCalls, scenario, connects, written,
                   sends, now, timers, feeds, lastConnect, sessionStart, faulty,
                   shown, inFlight, pendingWrites>>
    /\ UNCHANGED dispatchVars

\* sendFrame(cmdType, data), the write being fulfilled iff accepted.
SendFrame(cmdType, data, accepted) ==
    /\ Len(sends) < MaxSends
    /\ \E r \in {sendFrame(isConnected, writer, cmdType, data, accepted)} :
          /\ sends' = Append(sends, [method |-> "sendFrame", thrown |-> FALSE,
                                     cmdType |-> cmdType, data |-> data,
                                     connected |-> isConnected /\ writer,
                                     returned |-> r.returned,
                                     writes |-> r.writes,
                                     settled |-> r.settled,
                                     errors |-> r.errors])
          /\ written' = written \o r.writes
          /\ errorCalls' = errorCalls + r.errors
          /\ shown' = afterErrorSink(shown, r.errors)
    /\ UNCHANGED <<isConnected, writer, connects, now, faulty>>
    /\ UNCHANGED decoderVars
    /\ UNCHANGED dispatchVars
    /\ UNCHANGED loopVars
    /\ UNCHANGED handleVars

\* resetStatistics()
ResetStatistics ==
    /\ packetCount' = 0
    /\ updateRate' = 0
    /\ lastUpdateTime' = 0
    /\ UNCHANGED <<errorCalls, isConnected, writer, connects, written, sends, now,
                   dataCalls, responseCalls, routed, packetCountMax, faulty, shown>>
    /\ UNCHANGED decoderVars
    /\ UNCHANGED loopVars
    /\ UNCHANGED handleVars

\* A millisecond passes.
Tick ==
    /\ now < ClockStart + MaxTicks
    /\ now' = now + 1
    /\ UNCHANGED <<errorCalls, isConnected, writer, connects, written, sends,
                   faulty, shown>>
    /\ UNCHANGED decoderVars
    /\ UNCHANGED dispatchVars
    /\ UNCHANGED loopVars
    /\ UNCHANGED handleVars

\* Payloads handed to sendFrame: empty, one byte, the longest allowed and one
\* byte more than that.
SendPayload(len) == [i \in 1..len |-> (i * 37) % 256]

SendLengths == {0, 1, MAX_DATA_LENGTH, MAX_DATA_LENGTH + 1}

SendCmds == {CMD_STATUS, CMD_SET_PROTOCOL}

ConnectOutcomes == {"opened", "cancelled", "failed"}

\* What the device sends in a session: up to two frames.
SessionFrames ==
    { [cmdType |-> CMD_STATUS, data |-> <<RESULT_SUCCESS, 5>>],
      [cmdType |-> CMD_STATUS, data |-> <<>>],
      [cmdType |-> CMD_SENSOR_DATA, data |-> SensorPayload(1, "ramp", SensorPayloadLen)],
      [cmdType |-> CMD_SENSOR_DATA, data |-> SensorPayload(0, "first", 1)],
      [cmdType |-> CMD_MAPPING_DATA, data |-> MappingPayload(1, Half, 1, Half, MappingPayloadLen)] }

SessionScenarios ==
    {[kind |-> "session", pre |-> <<>>, corrupt |-> NoFrame, follow |-> fs] :
        fs \in {<<f>> : f \in SessionFrames}
               \cup {<<f, g>> : f \in SessionFrames, g \in FollowerFrames}}

\* The device sends nothing.
IdleScenarios == {[kind |-> "idle", pre |-> <<>>, corrupt |-> NoFrame, follow |-> <<>>]}

\* The state the constructor leaves, and the stream the device will send.
InitManager(scenarios) ==
    /\ scenario \in scenarios
    /\ faulty = {}
    /\ isReading = FALSE
    /\ reader = 0
    /\ port = 0
    /\ loops = <<>>
    /\ timers = 0
    /\ feeds = <<>>
    /\ lastConnect = [called |-> FALSE, opened |-> FALSE, enableAccepted |-> FALSE,
                      returned |-> FALSE]
    /\ sessionStart = 0
    /\ shown = "disconnected"
    /\ inFlight = NoneInFlight
    /\ pendingWrites = <<>>
    /\ incoming = Stream(scenario)
    /\ readBuffer = <<>>
    /\ dispatched = <<>>
    /\ appended = <<>>
    /\ lastChunk = <<>>
    /\ overflowed = FALSE
    /\ overflowWarnings = 0
    /\ errorCalls = 0
    /\ isConnected = FALSE
    /\ writer = FALSE
    /\ connects = 0
    /\ written = <<>>
    /\ sends = <<>>
    /\ now = ClockStart
    /\ packetCount = 0
    /\ updateRate = 0
    /\ lastUpdateTime = 0
    /\ dataCalls = <<>>
    /\ responseCalls = <<>>
    /\ routed = <<>>
    /\ packetCountMax = 0

InitSession == InitManager(SessionScenarios)

InitSend == InitManager(IdleScenarios)

\* A session of commands only: connect, disconnect and sendFrame.
NextSend ==
    \/ \E outcome \in ConnectOutcomes, enableAccepted \in BOOLEAN :
          Connect(outcome, enableAccepted)
    \/ Disconnect
    \/ \E cmdType \in SendCmds, len \in SendLengths, accepted \in BOOLEAN :
          SendFrame(cmdType, SendPayload(len), accepted)

SpecSend == InitSend /\ [][NextSend]_vars

\* A session with telemetry: every operation, with a transport that accepts
\* what is written, and sendFrame with the status query.
NextSession ==
    \/ \E outcome \in {"opened", "failed"} : Connect(outcome, TRUE)
    \/ Disconnect
    \/ \E n \in SessionSizes : Feed(n)
    \/ SendFrame(CMD_STATUS, <<>>, TRUE)
    \/ ResetStatistics
    \/ Tick

SpecSession == InitSession /\ [][NextSession]_vars

\* Sinks that raise: the telemetry sink, the response sink, or both, with the
\* streams of a session.
FaultySinks == {{"data"}, {"response"}, {"data", "response"}}

InitFaulty == InitConnected(SessionScenarios, FaultySinks)

SpecFaulty == InitFaulty /\ [][NextDispatch]_vars

(***************************************************************************)
(* The read loop, step by step.  A readLoop() invocation rests only at its *)
(* two awaits: pc "read" (reader.read() is pending on the reader on) and   *)
(* pc "sleep" (the 100 ms wait after a read error); "exited" once it has   *)
(* returned or thrown.  The transport is the source of the bytes and of    *)
(* every settlement of a read: a pending read may be fulfilled with bytes, *)
(* fulfilled with done, or rejected, at any time, and a read that          *)
(* reader.cancel() did not settle may still be settled later.              *)
(***************************************************************************)
\* The while test of readLoop, and the read it issues when the test passes.
whileTest(loop, connected, rdr) ==
    IF connected /\ rdr # 0 THEN [loop EXCEPT !.pc = "read", !.on = rdr]
                             ELSE [loop EXCEPT !.pc = "exited"]

\* The loops that have not returned.
ActiveLoops == {l \in 1..Len(loops) : loops[l].pc # "exited"}

\* The body of startReading() past its two guards: isReading = true, and readLoop()
\* runs up to its first await.
startLoop ==
    /\ isReading' = TRUE
    /\ loops' = Append(loops, whileTest([pc |-> "test", on |-> 0, failed |-> FALSE,
                                         stopped |-> FALSE, done |-> FALSE],
                                        isConnected, reader))

\* startReading(), when neither guard returns early.
StartReading ==
    /\ isConnected
    /\ reader # 0
    /\ ~isReading
    /\ Len(loops) < MaxLoops
    /\ startLoop
    /\ UNCHANGED <<errorCalls, isConnected, writer, connects, written, sends, now,
                   timers, feeds, faulty, shown>>
    /\ UNCHANGED decoderVars
    /\ UNCHANGED dispatchVars
    /\ UNCHANGED handleVars

\* The pending read of loop l is fulfilled with the next n bytes: the chunk is
\* appended and processed, then the while test runs.
ReadData(l, n) ==
    /\ l \in 1..Len(loops)
    /\ loops[l].pc = "read"
    /\ ReadValue(n)
    /\ feeds' = Append(feeds, [loop |-> l, on |-> loops[l].on, reader |-> reader,
                               connected |-> isConnected,
                               stopped |-> loops[l].stopped,
                               sinkCalls |-> (Len(dataCalls') - Len(dataCalls))
                                   + (Len(responseCalls') - Len(responseCalls))])
    /\ loops' = [loops EXCEPT ![l] = whileTest(@, isConnected, reader)]
    /\ isReading' = IF isConnected /\ reader # 0 THEN isReading ELSE FALSE
    /\ UNCHANGED <<scenario, isConnected, writer, connects, written, sends, now,
                   timers, faulty>>
    /\ UNCHANGED handleVars

\* The pending read of loop l is fulfilled with done: true.
ReadDone(l) ==
    /\ l \in 1..Len(loops)
    /\ loops[l].pc = "read"
    /\ loops' = [loops EXCEPT ![l] = [@ EXCEPT !.pc = "exited", !.done = TRUE]]
    /\ isReading' = FALSE
    /\ UNCHANGED <<errorCalls, isConnected, writer, connects, written, sends, now,
                   timers, feeds, faulty, shown>>
    /\ UNCHANGED decoderVars
    /\ UNCHANGED dispatchVars
    /\ UNCHANGED handleVars

\* What a read can be rejected with: "cancel" (name AbortError, or a message that
\* holds 'cancel'), "error" (any other Error), "odd" (a value without a string
\* message, such as undefined: the test in the catch block throws a TypeError,
\* which leaves readLoop and reaches the handler installed by startReading).
ReadErrorKinds == {"cancel", "error", "odd"}

\* The pending read of loop l is rejected.
ReadError(l, kind) ==
    /\ l \in 1..Len(loops)
    /\ loops[l].pc = "read"
    /\ loops' = [loops EXCEPT ![l] =
                    IF kind = "cancel" THEN [@ EXCEPT !.pc = "exited"]
                    ELSE IF kind = "error" /\ isConnected
                    THEN [@ EXCEPT !.pc = "sleep", !.failed = TRUE]
                    ELSE [@ EXCEPT !.pc = "exited", !.failed = TRUE]]
    /\ isReading' = IF kind = "error" /\ isConnected THEN isReading ELSE FALSE
    /\ errorCalls' = errorCalls + (IF kind = "odd" THEN 1 ELSE 0)
    /\ shown' = afterErrorSink(shown, IF kind = "odd" THEN 1 ELSE 0)
    /\ timers' = timers + (IF kind = "odd" /\ isConnected THEN 1 ELSE 0)
    /\ UNCHANGED <<isConnected, writer, connects, written, sends, now, feeds,
                   faulty>>
    /\ UNCHANGED decoderVars
    /\ UNCHANGED dispatchVars
    /\ UNCHANGED handleVars

\* The 100 ms wait of loop l is over: continue, that is the while test.
SleepDone(l) ==
    /\ l \in 1..Len(loops)
    /\ loops[l].pc = "sleep"
    /\ loops' = [loops EXCEPT ![l] = whileTest(@, isConnected, reader)]
    /\ isReading' = IF isConnected /\ reader # 0 THEN isReading ELSE FALSE
    /\ UNCHANGED <<errorCalls, isConnected, writer, connects, written, sends, now,
                   timers, feeds, faulty, shown>>
    /\ UNCHANGED decoderVars
    /\ UNCHANGED dispatchVars
    /\ UNCHANGED handleVars

\* A restart timer of startReading fires.
TimerFires ==
    /\ timers > 0
    /\ timers' = timers - 1
    /\ IF isConnected /\ ~isReading /\ reader # 0
       THEN Len(loops) < MaxLoops /\ startLoop
       ELSE UNCHANGED <<isReading, loops>>
    /\ UNCHANGED <<errorCalls, isConnected, writer, connects, written, sends, now,
                   feeds, faulty, shown>>
    /\ UNCHANGED decoderVars
    /\ UNCHANGED dispatchVars
    /\ UNCHANGED handleVars

\* What the device sends to a manager whose read loop is followed step by step:
\* an acknowledgment and one more frame.
ReaderScenarios ==
    {[kind |-> "reader", pre |-> <<>>, corrupt |-> NoFrame,
      follow |-> <<[cmdType |-> CMD_STATUS, data |-> <<RESULT_SUCCESS, 5>>], g>>] :
        g \in FollowerFrames}

InitReader == InitManager(ReaderScenarios)

NextReader ==
    \/ \E outcome \in {"opened", "failed"} : Connect(outcome, TRUE)
    \/ Disconnect
    \/ StartReading
    \/ \E l \in 1..MaxLoops, n \in SessionSizes : ReadData(l, n)
    \/ \E l \in 1..MaxLoops : ReadDone(l)
    \/ \E l \in 1..MaxLoops, kind \in ReadErrorKinds : ReadError(l, kind)
    \/ \E l \in 1..MaxLoops : SleepDone(l)
    \/ TimerFires

SpecReader == InitReader /\ [][NextReader]_vars

\* The read loop between connect and disconnect only, with a device that sends
\* one acknowledgment: the read is fulfilled with all that is left, with done, or
\* rejected with an Error that is no cancellation.
StopScenarios ==
    {[kind |-> "reader", pre |-> <<>>, corrupt |-> NoFrame,
      follow |-> <<[cmdType |-> CMD_STATUS, data |-> <<RESULT_SUCCESS, 5>>]>>]}

InitStop == InitManager(StopScenarios)

\* The transport settles the pending read of loop l.
ReadSettles(l) ==
    \/ ReadData(l, Len(incoming))
    \/ ReadDone(l)
    \/ ReadError(l, "error")

NextStop ==
    \/ Connect("opened", TRUE)
    \/ Disconnect
    \/ StartReading
    \/ \E l \in 1..MaxLoops : ReadSettles(l)
    \/ \E l \in 1..MaxLoops : SleepDone(l)

\* The event loop runs every timer callback that is due (the 100 ms wait of
\* readLoop), and the transport settles a read that is pending after disconnect()
\* was called: the port is being closed.  A read on an open idle port may stay
\* pending for ever.
ReaderFairness ==
    /\ \A l \in 1..MaxLoops : WF_vars(SleepDone(l))
    /\ \A l \in 1..MaxLoops :
          WF_vars(l \in 1..Len(loops) /\ loops[l].stopped /\ ReadSettles(l))

SpecStop == InitStop /\ [][NextStop]_vars /\ ReaderFairness

(***************************************************************************)
(* The command methods built on sendFrame, and enable() called by itself.  *)
(***************************************************************************)
\* What a command method hands to sendFrame: getStatus() sends CMD_STATUS without
\* payload; setProtocol(protocolId) throws for an id outside 0..2 before it
\* reaches sendFrame, and sends CMD_SET_PROTOCOL with the id otherwise.
commandFrame(method, arg) ==
    IF method = "setProtocol"
    THEN IF arg < 0 \/ arg > 2
         THEN [thrown |-> TRUE, cmdType |-> CMD_SET_PROTOCOL, data |-> <<>>]
         ELSE [thrown |-> FALSE, cmdType |-> CMD_SET_PROTOCOL, data |-> <<arg>>]
    ELSE [thrown |-> FALSE, cmdType |-> CMD_STATUS, data |-> <<>>]

CommandMethods == {"getStatus", "setProtocol"}

\* Protocol ids: the three that exist and one that does not.
ProtocolIds == {0, 2, 3}

\* A command method is called, the write being fulfilled iff accepted.
Command(method, arg, accepted) ==
    /\ Len(sends) < MaxSends
    /\ \E c \in {commandFrame(method, arg)} :
       \E r \in {IF c.thrown
                 THEN [returned |-> FALSE, writes |-> <<>>, settled |-> "none",
                       errors |-> 0]
                 ELSE sendFrame(isConnected, writer, c.cmdType, c.data, accepted)} :
          /\ sends' = Append(sends, [method |-> method, thrown |-> c.thrown,
                                     cmdType |-> c.cmdType, data |-> c.data,
                                     connected |-> isConnected /\ writer,
                                     returned |-> r.returned,
                                     writes |-> r.writes,
                                     settled |-> r.settled,
                                     errors |-> r.errors])
          /\ written' = written \o r.writes
          /\ errorCalls' = errorCalls + r.errors
          /\ shown' = afterErrorSink(shown, r.errors)
    /\ UNCHANGED <<isConnected, writer, connects, now, faulty>>
    /\ UNCHANGED decoderVars
    /\ UNCHANGED dispatchVars
    /\ UNCHANGED loopVars
    /\ UNCHANGED handleVars

\* enable() is called by itself, the write being fulfilled iff accepted.
Enable(accepted) ==
    /\ Len(sends) < MaxSends
    /\ \E r \in {enable(isConnected, writer, accepted)} :
          /\ sends' = Append(sends, [method |-> "enable", thrown |-> FALSE,
                                     cmdType |-> 0, data |-> <<>>,
                                     connected |-> isConnected /\ writer,
                                     returned |-> r.returned,
                                     writes |-> r.writes,
                                     settled |-> IF ~(isConnected /\ writer) THEN "none"
                                                 ELSE IF accepted THEN "fulfilled"
                                                 ELSE "rejected",
                                     errors |-> 0])
          /\ written' = written \o r.writes
    /\ UNCHANGED <<errorCalls, isConnected, writer, connects, now, faulty, shown>>
    /\ UNCHANGED decoderVars
    /\ UNCHANGED dispatchVars
    /\ UNCHANGED loopVars
    /\ UNCHANGED handleVars

(***************************************************************************)
(* connect() and disconnect() followed from await to await, as             *)
(* connectSerial() and disconnectSerial() of the application call them.    *)
(* One connect() and one disconnect() are followed at a time; the two may  *)
(* overlap, and the promises they wait for settle in any order.            *)
(***************************************************************************)
\* connectSerial() is started by the 'c' key when getConnectionStatus() is false,
\* or by the connect button, which updateConnectionStatus(true) disables:
\* connect() runs up to await navigator.serial.requestPort().
ConnectCalled ==
    /\ inFlight.connect = "idle"
    /\ connects < MaxConnects
    /\ ~isConnected \/ shown = "disconnected"
    /\ connects' = connects + 1
    /\ inFlight' = [inFlight EXCEPT !.connect = "request", !.connectId = connects + 1]
    /\ UNCHANGED <<errorCalls, isConnected, writer, written, sends, now, faulty,
                   shown, reader, port, lastConnect, sessionStart, pendingWrites>>
    /\ UNCHANGED decoderVars
    /\ UNCHANGED dispatchVars
    /\ UNCHANGED loopVars

\* The catch block of connect() with errors invocations of errorCallback, and the
\* branch of connectSerial() for a connect() that returned false.
connectFailed(errors) ==
    /\ isConnected' = FALSE
    /\ errorCalls' = errorCalls + errors
    /\ shown' = "disconnected"
    /\ lastConnect' = [called |-> TRUE, opened |-> FALSE, enableAccepted |-> FALSE,
                       returned |-> connectReturns(FALSE, FALSE)]
    /\ inFlight' = [inFlight EXCEPT !.connect = "idle"]

RequestOutcomes == {"chosen", "cancelled", "failed"}

\* requestPort() settles: a port is chosen (this.port is set and port.open() is
\* called), the chooser is dismissed, or the request fails otherwise.
RequestSettles(outcome) ==
    /\ inFlight.connect = "request"
    /\ IF outcome = "chosen"
       THEN /\ port' = inFlight.connectId
            /\ inFlight' = [inFlight EXCEPT !.connect = "open"]
            /\ UNCHANGED <<isConnected, errorCalls, shown, lastConnect>>
       ELSE /\ connectFailed(IF outcome = "cancelled" THEN 0 ELSE 1)
            /\ UNCHANGED port
    /\ UNCHANGED <<writer, connects, written, sends, now, faulty, reader,
                   sessionStart, pendingWrites>>
    /\ UNCHANGED decoderVars
    /\ UNCHANGED dispatchVars
    /\ UNCHANGED loopVars

\* port.open() settles.  When it is fulfilled the reader and the writer are taken
\* from this.port (a TypeError when disconnect() has set it to null meanwhile),
\* the buffer is emptied, isConnected becomes true and enable() calls
\* writer.write.
OpenSettles(ok) ==
    /\ inFlight.connect = "open"
    /\ IF ok /\ port # 0
       THEN /\ reader' = port
            /\ writer' = TRUE
            /\ readBuffer' = <<>>
            /\ isConnected' = TRUE
            /\ lastUpdateTime' = now
            /\ inFlight' = [inFlight EXCEPT !.connect = "enable"]
            /\ UNCHANGED <<errorCalls, shown, lastConnect>>
       ELSE /\ connectFailed(1)
            /\ UNCHANGED <<reader, writer, readBuffer, lastUpdateTime>>
    /\ UNCHANGED <<incoming, dispatched, appended, lastChunk, overflowed,
                   overflowWarnings, scenario, connects, written, sends, now,
                   packetCount, updateRate, dataCalls, responseCalls, routed,
                   packetCountMax, faulty, port, sessionStart, pendingWrites>>
    /\ UNCHANGED loopVars

\* The write of enable() settles and connect() returns; connectSerial() displays
\* what it returned and, for true, calls startReading().
EnableSettles(accepted) ==
    /\ inFlight.connect = "enable"
    /\ \E r \in {enable(TRUE, TRUE, accepted)} :
       \E returned \in {connectReturns(TRUE, r.returned)} :
          /\ written' = written \o r.writes
          /\ sessionStart' = Len(written)
          /\ lastConnect' = [called |-> TRUE, opened |-> TRUE,
                             enableAccepted |-> accepted, returned |-> returned]
          /\ shown' = IF returned THEN "connected" ELSE "disconnected"
          /\ IF returned /\ isConnected /\ reader # 0 /\ ~isReading
             THEN Len(loops) < MaxLoops /\ startLoop
             ELSE UNCHANGED <<isReading, loops>>
    /\ inFlight' = [inFlight EXCEPT !.connect = "idle"]
    /\ UNCHANGED <<errorCalls, isConnected, writer, connects, sends, now, faulty,
                   reader, port, pendingWrites, timers, feeds>>
    /\ UNCHANGED decoderVars
    /\ UNCHANGED dispatchVars

\* Where disconnect() goes once it is done with the writer: await port.close()
\* when this.port is set, else its last lines.
afterWriterBlock(rdr, wr, prt) ==
    [reader |-> rdr, writer |-> wr, port |-> prt,
     pc |-> IF prt # 0 THEN "portClose" ELSE "finish"]

\* Where disconnect() goes once it is done with the reader: await writer.close()
\* when this.writer is set.
afterReaderBlock(rdr, wr, prt) ==
    IF wr THEN [reader |-> rdr, writer |-> wr, port |-> prt, pc |-> "close"]
          ELSE afterWriterBlock(rdr, wr, prt)

\* disconnect() runs on from the await pc, whose promise was fulfilled (ok) or
\* rejected, up to its next await, with the handles as they are now: the handles
\* it leaves and the await it stops at ("finish": it ran to its end).  Every handle
\* is set to null after the catch block of its step.
disconnectResume(pc, ok, rdr, wr, prt) ==
    CASE pc = "start" ->
           IF rdr # 0 THEN [reader |-> rdr, writer |-> wr, port |-> prt, pc |-> "cancel"]
                      ELSE afterReaderBlock(rdr, wr, prt)
      [] pc = "cancel" ->
           IF ok THEN [reader |-> rdr, writer |-> wr, port |-> prt, pc |-> "release"]
                 ELSE afterReaderBlock(0, wr, prt)
      [] pc = "release" -> afterReaderBlock(0, wr, prt)
      [] pc = "close" ->
           IF ok THEN [reader |-> rdr, writer |-> wr, port |-> prt, pc |-> "closeRelease"]
                 ELSE afterWriterBlock(rdr, FALSE, prt)
      [] pc = "closeRelease" -> afterWriterBlock(rdr, FALSE, prt)
      [] pc = "portClose" -> [reader |-> rdr, writer |-> wr, port |-> 0, pc |-> "finish"]

\* The handles and the position disconnect() leaves; at its end it empties the
\* buffer, and disconnectSerial() displays 'disconnected'.
disconnectLeaves(r) ==
    /\ reader' = r.reader
    /\ writer' = r.writer
    /\ port' = r.port
    /\ IF r.pc = "finish"
       THEN /\ readBuffer' = <<>>
            /\ shown' = "disconnected"
            /\ inFlight' = [inFlight EXCEPT !.disconnect = "idle"]
       ELSE /\ inFlight' = [inFlight EXCEPT !.disconnect = r.pc]
            /\ UNCHANGED <<readBuffer, shown>>

\* disconnectSerial() is started by the 'c' key when getConnectionStatus() is
\* true, or by the disconnect button, which updateConnectionStatus(false)
\* disables: disconnect() clears the two flags and runs up to its first await.
DisconnectCalled ==
    /\ inFlight.disconnect = "idle"
    /\ isConnected \/ shown = "connected"
    /\ isConnected' = FALSE
    /\ isReading' = FALSE
    /\ \E cancelled \in BOOLEAN :
          loops' = [l \in 1..Len(loops) |-> loopAfterDisconnect(loops[l], reader, cancelled)]
    /\ disconnectLeaves(disconnectResume("start", TRUE, reader, writer, port))
    /\ UNCHANGED <<incoming, dispatched, appended, lastChunk, overflowed,
                   overflowWarnings, errorCalls, scenario, connects, written,
                   sends, now, timers, feeds, lastConnect, sessionStart, faulty,
                   pendingWrites>>
    /\ UNCHANGED dispatchVars

\* The promise disconnect() waits for settles.  How it settles matters only for
\* reader.cancel() and writer.close(): a rejection skips the releaseLock() behind.
DisconnectSettles(ok) ==
    /\ inFlight.disconnect # "idle"
    /\ ok \/ inFlight.disconnect \in {"cancel", "close"}
    /\ disconnectLeaves(disconnectResume(inFlight.disconnect, ok, reader, writer, port))
    /\ UNCHANGED <<incoming, dispatched, appended, lastChunk, overflowed,
                   overflowWarnings, errorCalls, scenario, isConnected, connects,
                   written, sends, now, lastConnect, sessionStart, faulty,
                   pendingWrites>>
    /\ UNCHANGED dispatchVars
    /\ UNCHANGED loopVars

InitToggle == InitManager(IdleScenarios)

\* The application with an idle device: the two session operations step by step,
\* the command methods and enable().
NextToggle ==
    \/ ConnectCalled
    \/ \E outcome \in RequestOutcomes : RequestSettles(outcome)
    \/ \E ok \in BOOLEAN : OpenSettles(ok)
    \/ \E accepted \in BOOLEAN : EnableSettles(accepted)
    \/ DisconnectCalled
    \/ \E ok \in BOOLEAN : DisconnectSettles(ok)
    \/ \E method \in CommandMethods, arg \in ProtocolIds, accepted \in BOOLEAN :
          Command(method, arg, accepted)
    \/ \E accepted \in BOOLEAN : Enable(accepted)

SpecToggle == InitToggle /\ [][NextToggle]_vars

\* The same with a transport on which every port is chosen and opened and the
\* text command is accepted: the calls of the command methods and of enable() in
\* every state the two session operations pass through.
NextCommands ==
    \/ ConnectCalled
    \/ RequestSettles("chosen")
    \/ OpenSettles(TRUE)
    \/ EnableSettles(TRUE)
    \/ DisconnectCalled
    \/ \E ok \in BOOLEAN : DisconnectSettles(ok)
    \/ \E method \in CommandMethods, arg \in ProtocolIds, accepted \in BOOLEAN :
          Command(method, arg, accepted)
    \/ \E accepted \in BOOLEAN : Enable(accepted)

SpecCommands == InitToggle /\ [][NextCommands]_vars

(***************************************************************************)
(* Properties.                                                             *)
(***************************************************************************)
\* The (cmdType, data) of the parseFrame calls made so far.
Dispatches == [i \in 1..Len(dispatched) |->
                 [cmdType |-> dispatched[i].cmdType, data |-> dispatched[i].data]]

\* All of the stream has been delivered.
Delivered == incoming = <<>>

\* The last read returned the whole stream: it was fed in a single call.
SingleCall == lastChunk = Stream(scenario) /\ lastChunk # <<>>

\* What one appendToBuffer + processBuffer on an empty buffer makes of bytes.
OneCall(bytes) == processBuffer(appendToBuffer(<<>>, bytes).readBuffer)

\* C1: round trip. The frame sendFrame builds for (cmdType, payload), fed in one
\* call to a decoder with an empty buffer, is dispatched exactly once with that
\* cmdType and payload, and the buffer is empty afterwards.
C1_RoundTrip ==
    (scenario.kind = "frame" /\ SingleCall)
        => (Dispatches = scenario.follow /\ readBuffer = <<>>)

C1_Witness ==
    /\ scenario.kind = "frame"
    /\ SingleCall
    /\ Len(scenario.follow[1].data) = MAX_DATA_LENGTH
    /\ Dispatches = scenario.follow

\* C2: chunk-boundary invariance. However the bytes of one encoded frame are split
\* into consecutive calls, nothing is dispatched before the call that delivers the
\* last byte, and that call dispatches exactly what the single call dispatches and
\* leaves the buffer the single call leaves.
C2_ChunkInvariance ==
    scenario.kind = "frame" =>
        /\ ~Delivered => (dispatched = <<>> /\ readBuffer = appended)
        /\ Delivered =>
             /\ dispatched = OneCall(Stream(scenario)).calls
             /\ readBuffer = OneCall(Stream(scenario)).readBuffer
             /\ Len(dispatched) = 1

C2_Witness ==
    /\ scenario.kind = "frame"
    /\ Delivered
    /\ Len(lastChunk) = 1
    /\ Len(scenario.follow[1].data) = MaxPayloadLen
    /\ Dispatches = scenario.follow

\* The header byte at (1-based) index i of bytes starts a candidate that lies
\* completely within bytes and whose tail byte or checksum is wrong.
CandidateRejected(bytes, i) ==
    /\ i + 2 <= Len(bytes)
    /\ i + 4 + bytes[i + 2] <= Len(bytes)
    /\ LET n == bytes[i + 2]
       IN  \/ bytes[i + 4 + n] # FRAME_TAIL
           \/ (bytes[i + 1] + n + SumRange(bytes, i + 3, i + 2 + n)
               + bytes[i + 3 + n]) % 256 # 0

\* Every header byte among the first k bytes starts such a candidate.
EveryHeaderRejected(bytes, k) ==
    \A i \in 1..k : bytes[i] = FRAME_HEADER => CandidateRejected(bytes, i)

HasHeader(bytes, lo, hi) == \E i \in lo..hi : bytes[i] = FRAME_HEADER

\* C3 (as amended): resync. For a stream [garbage][valid frame] in which every
\* header byte 0xAA of the garbage starts a candidate that lies within the stream
\* and has a wrong tail or checksum, nothing is dispatched before the last byte is
\* delivered, and then exactly the valid frame has been dispatched and the buffer
\* is empty.
C3_Resync ==
    (scenario.kind = "garbage"
        /\ EveryHeaderRejected(Stream(scenario), Len(scenario.pre)))
    => /\ ~Delivered => dispatched = <<>>
       /\ Delivered => (Dispatches = scenario.follow /\ readBuffer = <<>>)

C3_Witness ==
    /\ scenario.kind = "garbage"
    /\ Delivered
    /\ HasHeader(scenario.pre, 1, Len(scenario.pre))
    /\ EveryHeaderRejected(Stream(scenario), Len(scenario.pre))
    /\ Dispatches = scenario.follow
    /\ readBuffer = <<>>

\* C3 as claimed: for any garbage, once [garbage][valid frame] is in, exactly the
\* valid frame has been dispatched and the garbage is gone.
C3_AnyGarbage ==
    (scenario.kind = "garbage" /\ Delivered)
        => (Dispatches = scenario.follow /\ readBuffer = <<>>)

\* C4: corruption rejection. A valid frame with one bit of a payload byte or of the
\* checksum byte inverted is never dispatched: no parseFrame call is cut from its
\* bytes, and when nothing follows it no call carries its cmdType with its
\* (corrupted) payload.
C4_CorruptionRejected ==
    scenario.kind = "corrupt" =>
        \A i \in 1..Len(dispatched) :
            /\ dispatched[i].window # scenario.pre
            /\ scenario.follow = <<>> => Dispatches[i] # scenario.corrupt

C4_Witness ==
    /\ scenario.kind = "corrupt"
    /\ scenario.follow = <<>>
    /\ Len(scenario.corrupt.data) = MaxPayloadLen
    /\ Delivered
    /\ dispatched = <<>>

\* C5 (as amended): recovery after corruption. When a frame with one inverted bit
\* in its payload or checksum is immediately followed by a valid frame, and every
\* header byte 0xAA of the corrupted frame starts a candidate that lies within the
\* two frames and has a wrong tail or checksum, then once both are delivered
\* exactly the following frame has been dispatched, with its cmdType and payload.
C5_RecoveryAfterCorruption ==
    (/\ scenario.kind = "corrupt"
     /\ scenario.follow # <<>>
     /\ Delivered
     /\ EveryHeaderRejected(Stream(scenario), Len(scenario.pre)))
    => (Dispatches = scenario.follow /\ readBuffer = <<>>)

C5_Witness ==
    /\ scenario.kind = "corrupt"
    /\ scenario.follow # <<>>
    /\ Delivered
    /\ HasHeader(scenario.pre, 2, Len(scenario.pre))
    /\ EveryHeaderRejected(Stream(scenario), Len(scenario.pre))
    /\ Dispatches = scenario.follow

\* C5 as claimed: the following valid frame is dispatched whatever the bytes of
\* the corrupted frame are.
C5_WhateverTheBytes ==
    (scenario.kind = "corrupt" /\ scenario.follow # <<>> /\ Delivered)
        => \E i \in 1..Len(dispatched) : Dispatches[i] = scenario.follow[1]

\* bytes holds w as a contiguous run.
Occurs(w, bytes) ==
    \E k \in 0..(Len(bytes) - Len(w)) : SubSeq(bytes, k + 1, k + Len(w)) = w

\* C6: only validated frames are dispatched. Every parseFrame(cmdType, payload) call
\* was cut from a window of received bytes that starts with 0xAA, ends with 0x55,
\* is 5 + its length byte long, carries cmdType and payload, and whose checksum
\* byte is calculateChecksum(cmdType, length, payload).
C6_OnlyValidatedFrames ==
    \A i \in 1..Len(dispatched) :
        LET d == dispatched[i]
            w == d.window
        IN  /\ Len(w) >= MIN_FRAME_LEN
            /\ w[1] = FRAME_HEADER
            /\ w[Len(w)] = FRAME_TAIL
            /\ Len(w) = 5 + w[3]
            /\ d.cmdType = w[2]
            /\ d.data = SubSeq(w, 4, Len(w) - 2)
            /\ w[Len(w) - 1] = calculateChecksum(d.cmdType, w[3], d.data)
            /\ Occurs(w, Stream(scenario))

\* A candidate with header and tail but a wrong checksum went by, and a frame was
\* dispatched after it.
C6_Witness ==
    /\ scenario.kind = "corrupt"
    /\ scenario.pre[1] = FRAME_HEADER
    /\ scenario.pre[Len(scenario.pre)] = FRAME_TAIL
    /\ Delivered
    /\ Len(dispatched) = 1

Max(a, b) == IF a >= b THEN a ELSE b

\* The number of bytes delivered so far.
DeliveredCount == Len(Stream(scenario)) - Len(incoming)

\* C7: overflow bound. For a stream of noise that holds no valid frame, delivered
\* in chunks of any of the sizes (one of them larger than the capacity), the buffer
\* holds at most maxBufferSize bytes after every feed and no frame is dispatched,
\* so no sink runs that could raise.
C7_OverflowBound ==
    (scenario.kind = "burst" /\ scenario.follow = <<>>)
        => (Len(readBuffer) <= maxBufferSize /\ dispatched = <<>>)

C7_Witness ==
    /\ scenario.kind = "burst"
    /\ scenario.follow = <<>>
    /\ DeliveredCount > maxBufferSize
    /\ Len(lastChunk) > maxBufferSize
    /\ Len(readBuffer) <= maxBufferSize

LengthBytes == {0, 1, 255}

\* c is a byte that makes cmdType + length + payload bytes + c a multiple of 256.
ChecksumLaw(cmdType, length, data, c) ==
    /\ c \in Byte
    /\ (cmdType + length + SumSeq(data) + c) % 256 = 0

\* C10: checksum. For the cmdType and payload of every frame sent and of every
\* frame dispatched, and for any length byte, calculateChecksum returns a byte c
\* with (cmdType + length + sum of payload + c) mod 256 = 0; the checksum byte of
\* the frame sendFrame builds and the one the decoder accepted are both that value;
\* and calculateChecksum(0x0B, 0, []) = 0xF5.
C10_Checksum ==
    /\ calculateChecksum(CMD_STATUS, 0, <<>>) = 245
    /\ \A i \in 1..Len(scenario.follow) :
         LET f == scenario.follow[i]
             bytes == Encode(f)
         IN  /\ \A l \in LengthBytes \cup {Len(f.data)} :
                  ChecksumLaw(f.cmdType, l, f.data,
                              calculateChecksum(f.cmdType, l, f.data))
             /\ bytes[Len(bytes) - 1] = calculateChecksum(f.cmdType, Len(f.data), f.data)
    /\ \A i \in 1..Len(dispatched) :
         LET d == dispatched[i]
         IN  /\ ChecksumLaw(d.cmdType, Len(d.data), d.data, d.window[Len(d.window) - 1])
             /\ d.window[Len(d.window) - 1]
                  = calculateChecksum(d.cmdType, Len(d.data), d.data)

\* A frame whose byte sum exceeds 255 (the sum wraps) was sent and dispatched.
C10_Witness ==
    /\ scenario.kind = "frame"
    /\ Delivered
    /\ Len(dispatched) = 1
    /\ dispatched[1].cmdType + Len(dispatched[1].data) + SumSeq(dispatched[1].data) > 255
    /\ dispatched[1].window[Len(dispatched[1].window) - 1] # 0

(***************************************************************************)
(* The frame encoder as sendFrame runs it.                                 *)
(***************************************************************************)
\* The sendFrame calls made on a connected manager (isConnected true, writer
\* non-null) with a payload of at most 255 bytes whose write was fulfilled.
SentFrames ==
    {i \in 1..Len(sends) : /\ sends[i].connected
                           /\ Len(sends[i].data) <= MAX_DATA_LENGTH
                           /\ sends[i].settled = "fulfilled"}

\* C11: frame layout. Every sendFrame(cmdType, payload) call on a connected
\* manager with a payload of n <= 255 bytes, the transport accepting the write,
\* wrote exactly one byte array, [0xAA, cmdType, n, payload..., checksum(cmdType, n,
\* payload), 0x55], of length 5 + n, and returned true; the array is in the log of
\* the transport.
C11_FrameLayout ==
    \A i \in SentFrames :
        LET c == sends[i]
            n == Len(c.data)
        IN  /\ c.returned = TRUE
            /\ c.writes = << <<170, c.cmdType, n>> \o c.data
                             \o <<calculateChecksum(c.cmdType, n, c.data), 85>> >>
            /\ Len(c.writes[1]) = 5 + n
            /\ \E k \in 1..Len(written) : written[k] = c.writes[1]

\* A payload of 255 bytes was sent in a frame of 260 bytes.
C11_Witness ==
    \E i \in SentFrames :
        /\ Len(sends[i].data) = MAX_DATA_LENGTH
        /\ sends[i].returned
        /\ Len(sends[i].writes[1]) = 260

\* C12: oversized payload. Every sendFrame call with a payload longer than 255
\* bytes returned false (it returned: the throw is caught inside sendFrame) and
\* wrote nothing; no byte array longer than 5 + 255 bytes ever reached the
\* transport.
C12_OversizedRejected ==
    /\ \A i \in 1..Len(sends) :
           Len(sends[i].data) > MAX_DATA_LENGTH =>
               /\ sends[i].returned = FALSE
               /\ sends[i].writes = <<>>
               /\ sends[i].settled = "none"
    /\ \A k \in 1..Len(written) :
           \/ written[k] = FrameEnableBytes
           \/ /\ Len(written[k]) <= 5 + MAX_DATA_LENGTH
              /\ Len(written[k]) = 5 + written[k][3]

\* A connected manager was asked to send 256 bytes and returned false.
C12_Witness ==
    \E i \in 1..Len(sends) :
        /\ sends[i].connected
        /\ Len(sends[i].data) = MAX_DATA_LENGTH + 1
        /\ ~sends[i].returned
        /\ Len(written) >= 1

(***************************************************************************)
(* The dispatcher.  routed[i] tells what the i-th parseFrame call, the one *)
(* of dispatched[i], handed to the two callbacks.                          *)
(***************************************************************************)
IsNotification(cmdType) == cmdType \in NotificationCmds

\* The parseFrame calls for acknowledgments and for notifications.
AckCalls == {i \in 1..Len(dispatched) : ~IsNotification(dispatched[i].cmdType)}

NotificationCalls == {i \in 1..Len(dispatched) : IsNotification(dispatched[i].cmdType)}

\* The notifications whose payload has the length its decoder requires.
FullCalls ==
    {i \in NotificationCalls :
        \/ /\ dispatched[i].cmdType = CMD_SENSOR_DATA
           /\ Len(dispatched[i].data) >= SensorPayloadLen
        \/ /\ dispatched[i].cmdType = CMD_MAPPING_DATA
           /\ Len(dispatched[i].data) >= MappingPayloadLen}

ShortCalls == NotificationCalls \ FullCalls

\* C13: acknowledgment routing. For every validated frame whose cmdType is
\* neither 0x20 nor 0x21 and whose payload is not empty, the response callback was
\* invoked exactly once, with ('ok', cmdType, payload[1..]) when payload[0] = 0x00
\* and with ('error', cmdType, payload[1..]) for every other payload[0].
C13_AckRouting ==
    /\ Len(routed) = Len(dispatched)
    /\ \A i \in AckCalls :
         LET d == dispatched[i]
         IN  Len(d.data) > 0 =>
               routed[i].response =
                 << [status |-> IF d.data[1] = 0 THEN "ok" ELSE "error",
                     cmdType |-> d.cmdType,
                     extraData |-> SubSeq(d.data, 2, Len(d.data))] >>

\* Two acknowledgments were dispatched: one with a result code other than FAIL
\* and SUCCESS and with extra bytes, routed as 'error', and one routed as 'ok'.
C13_Witness ==
    /\ Len(dispatched) = 2
    /\ AckCalls = {1, 2}
    /\ Len(dispatched[1].data) = 3
    /\ dispatched[1].data[1] > RESULT_FAIL
    /\ routed[1].response[1].status = "error"
    /\ routed[1].response[1].extraData = <<7, FRAME_HEADER>>
    /\ routed[2].response[1].status = "ok"
    /\ Len(responseCalls) = 2

\* C14: empty acknowledgment. For every validated frame that is not a
\* notification and has an empty payload, the response callback received
\* ('error', cmdType, []); the frame is dispatched like any other: once the stream
\* is delivered every frame of it was dispatched, the buffer is empty and
\* errorCallback was not invoked.
C14_EmptyAck ==
    /\ \A i \in AckCalls :
         dispatched[i].data = <<>> =>
           routed[i].response =
             << [status |-> "error", cmdType |-> dispatched[i].cmdType,
                 extraData |-> <<>>] >>
    /\ Delivered =>
         /\ Dispatches = scenario.follow
         /\ readBuffer = <<>>
         /\ errorCalls = 0

\* An acknowledgment with an empty payload was dispatched, and the frame after it.
C14_Witness ==
    /\ Delivered
    /\ Len(dispatched) = 2
    /\ dispatched[1].cmdType = 34
    /\ dispatched[1].data = <<>>
    /\ routed[1].response = << [status |-> "error", cmdType |-> 34, extraData |-> <<>>] >>
    /\ Len(dataCalls) = 1

\* C15: sink separation. A validated frame with cmdType 0x20 or 0x21 reached
\* only the data callback (once when its payload is long enough) and never the
\* response callback; a validated frame with any other cmdType reached only the
\* response callback, once, and never the data callback. The two callbacks
\* received nothing else.
C15_SinkSeparation ==
    /\ \A i \in NotificationCalls :
         /\ routed[i].response = <<>>
         /\ Len(routed[i].data) = IF i \in FullCalls THEN 1 ELSE 0
    /\ \A i \in AckCalls :
         /\ routed[i].data = <<>>
         /\ Len(routed[i].response) = 1
         /\ routed[i].response[1].cmdType = dispatched[i].cmdType
    /\ Len(responseCalls) = Cardinality(AckCalls)
    /\ Len(dataCalls) = Cardinality(FullCalls)
    /\ \A k \in 1..Len(responseCalls) : ~IsNotification(responseCalls[k].cmdType)

\* A mapping notification and an acknowledgment were dispatched one after the
\* other, the first to the data callback and the second to the response callback.
C15_Witness ==
    /\ Len(dispatched) = 2
    /\ dispatched[1].cmdType = CMD_MAPPING_DATA
    /\ dispatched[2].cmdType = CMD_STATUS
    /\ Len(routed[1].data) = 1
    /\ Len(routed[2].response) = 1
    /\ Len(dataCalls) = 1
    /\ Len(responseCalls) = 1

\* The fifteen joint fields of a reading in the order thumb, index, middle, ring,
\* pinky, each with yaw, pitch, tip.
JointFields(r) ==
    << r.thumbYaw, r.thumbPitch, r.thumbTip,
       r.indexYaw, r.indexPitch, r.indexTip,
       r.middleYaw, r.middlePitch, r.middleTip,
       r.ringYaw, r.ringPitch, r.ringTip,
       r.pinkyYaw, r.pinkyPitch, r.pinkyTip >>

\* An empty dispatcher record.
NoCalls ==
    [packetCount |-> 0, updateRate |-> 0, lastUpdateTime |-> 0, dataCalls |-> <<>>,
     responseCalls |-> <<>>, routed |-> <<>>, errors |-> 0, faulty |-> {}]

\* C16: sensor decode. For every SENSOR_DATA payload of at least 31 bytes that
\* was dispatched, the reading handed to the data callback has hand = payload[0]
\* and 15 joint values, the i-th (i = 0..14) being payload[1+2i] + 256 *
\* payload[2+2i], a value in 0..65535, in the order thumb, index, middle, ring,
\* pinky x yaw, pitch, tip; and the payload of hand 0, first joint bytes 01 00 and
\* zeros elsewhere decodes to hand 0 and joints [1, 0, ..., 0].
C16_SensorDecode ==
    /\ \A i \in FullCalls :
         dispatched[i].cmdType = CMD_SENSOR_DATA =>
           LET payload == dispatched[i].data
               r == routed[i].data[1]
           IN  /\ r.hand = payload[1]
               /\ Len(r.sensorData) = 15
               /\ \A j \in 1..15 :
                    /\ r.sensorData[j] = payload[2 * j] + 256 * payload[2 * j + 1]
                    /\ r.sensorData[j] \in 0..65535
               /\ JointFields(r) = r.sensorData
    /\ LET example == parseSensorDataFrame(<<0, 1, 0>> \o [k \in 1..28 |-> 0],
                                           NoCalls, ClockStart).dataCalls
       IN  /\ Len(example) = 1
           /\ example[1].hand = 0
           /\ JointFields(example[1]) = <<1>> \o [k \in 1..14 |-> 0]

\* A sensor payload of 32 bytes was decoded whose joints differ from one another
\* and have a non-zero high byte.
C16_Witness ==
    /\ Len(dispatched) >= 1
    /\ dispatched[1].cmdType = CMD_SENSOR_DATA
    /\ Len(dispatched[1].data) = SensorPayloadLen + 1
    /\ Len(routed[1].data) = 1
    /\ routed[1].data[1].hand = 255
    /\ routed[1].data[1].thumbYaw = 9 + 256 * 18
    /\ routed[1].data[1].pinkyTip = ((29 * 9) % 256) + 256 * ((30 * 9) % 256)

\* The binary32 value that the table of samples gives for four bytes.
SampleValues(bytes) == {smp.value : smp \in {x \in Float32Samples : x.bytes = bytes}}

\* C17: mapping decode. For every MAPPING_DATA payload of at least 61 bytes that
\* was dispatched, the reading handed to the data callback has hand = payload[0]
\* and 15 values, the i-th (i = 0..14) being the IEEE-754 binary32 number encoded
\* by payload[1+4i .. 4+4i], least significant byte first, whatever its magnitude
\* (100.25, -2, the largest finite value and Infinity come out as they are); and
\* the payload of hand 1 and 15 encodings of 0.5 decodes to hand 1 and fifteen
\* values 0.5.
C17_MappingDecode ==
    /\ \A i \in FullCalls :
         dispatched[i].cmdType = CMD_MAPPING_DATA =>
           LET payload == dispatched[i].data
               r == routed[i].data[1]
           IN  /\ r.hand = payload[1]
               /\ Len(r.mappingData) = 15
               /\ \A j \in 1..15 :
                    SampleValues(SubSeq(payload, 4 * j - 2, 4 * j + 1))
                      = {r.mappingData[j]}
               /\ JointFields(r) = r.mappingData
    /\ LET example == parseMappingDataFrame(
                        <<1>> \o [k \in 1..60 |-> IF k % 4 = 0 THEN 63 ELSE 0],
                        NoCalls, ClockStart).dataCalls
       IN  /\ Len(example) = 1
           /\ example[1].hand = 1
           /\ JointFields(example[1])
                = [k \in 1..15 |-> [kind |-> "finite", sign |-> 0, sig |-> 1, pow |-> -1]]

\* A mapping payload was decoded whose eighth value is 100.25 and whose other
\* values are 0.5.
C17_Witness ==
    /\ Len(dispatched) >= 1
    /\ dispatched[1].cmdType = CMD_MAPPING_DATA
    /\ Len(routed[1].data) = 1
    /\ routed[1].data[1].hand = 1
    /\ routed[1].data[1].middlePitch = [kind |-> "finite", sign |-> 0, sig |-> 401, pow |-> -2]
    /\ routed[1].data[1].thumbYaw = [kind |-> "finite", sign |-> 0, sig |-> 1, pow |-> -1]
    /\ routed[1].data[1].pinkyTip = [kind |-> "finite", sign |-> 0, sig |-> 1, pow |-> -1]

\* C18: short notification payload. A validated SENSOR_DATA frame with fewer
\* than 31 payload bytes, or a validated MAPPING_DATA frame with fewer than 61,
\* handed nothing to the data callback (nor to the response callback) and
\* errorCallback was not invoked; once the stream is delivered the frame is out of
\* the buffer and the frame that followed it was dispatched and, being a full
\* notification or an acknowledgment, reached its callback.
C18_ShortNotification ==
    /\ \A i \in ShortCalls :
         /\ routed[i].data = <<>>
         /\ routed[i].response = <<>>
    /\ errorCalls = 0
    /\ Len(dataCalls) = Cardinality(FullCalls)
    /\ Delivered =>
         /\ readBuffer = <<>>
         /\ Dispatches = scenario.follow
         /\ \A i \in 1..Len(dispatched) :
              (i > 1 /\ (i - 1) \in ShortCalls) =>
                 Len(routed[i].data) + Len(routed[i].response) = 1

\* A mapping frame of 60 payload bytes was dropped and the sensor frame after it
\* was decoded.
C18_Witness ==
    /\ Delivered
    /\ Len(dispatched) = 2
    /\ dispatched[1].cmdType = CMD_MAPPING_DATA
    /\ Len(dispatched[1].data) = MappingPayloadLen - 1
    /\ routed[1].data = <<>>
    /\ dispatched[2].cmdType = CMD_SENSOR_DATA
    /\ Len(dataCalls) = 1
    /\ dataCalls[1].hand = 1
    /\ dataCalls[1].packetNumber = 0
    /\ readBuffer = <<>>

(***************************************************************************)
(* Statistics.                                                             *)
(***************************************************************************)
\* C19: statistics are mutated solely by notifications. Dispatching a command
\* acknowledgment frame leaves packetCount, updateRate and lastUpdateTime as
\* they were: the statistics after every parseFrame call for a cmdType other than
\* 0x20 and 0x21 equal the statistics before it.
C19_AcksLeaveStatistics ==
    \A i \in AckCalls : routed[i].after = routed[i].before

\* C20 (as stated): packetCount never becomes smaller than a value it held
\* before, whatever the operations: it always equals the largest value it has held.
C20_NeverSmaller == packetCount >= packetCountMax

\* C20 (as amended): packetCount becomes smaller only in resetStatistics(), which
\* sets it to 0; connect, disconnect, feeding chunks and sending frames never
\* decrease it, and a dispatched reading increases it by one.
C20_OnlyResetDecreases ==
    [][ /\ packetCount' < packetCount => (ResetStatistics /\ packetCount' = 0)
        /\ Len(dataCalls') - Len(dataCalls) > 0 =>
              packetCount' = packetCount + Len(dataCalls') - Len(dataCalls)
      ]_vars

\* Two readings were emitted with a resetStatistics() between them: the counter
\* stands at 1 again.
C20_Witness ==
    /\ Len(dataCalls) = 2
    /\ packetCount = 1
    /\ packetCountMax = 1
    /\ dataCalls[1].packetNumber = 0
    /\ dataCalls[2].packetNumber = 0

(***************************************************************************)
(* The passes of processBuffer.                                            *)
(***************************************************************************)
\* The loop state of processBuffer() on the buffer appendToBuffer left in the
\* last iteration, after k passes of the loop body.
PassState(k) ==
    processBufferPasses([readBuffer |-> appended, calls |-> <<>>, running |-> TRUE], k)

\* The loop states of processBuffer() from s on, pass by pass, up to the one in
\* which the loop has stopped.
RECURSIVE PassTrace(_)
PassTrace(s) == IF s.running THEN <<s>> \o PassTrace(processBufferStep(s)) ELSE <<s>>

\* The loop states of processBuffer() in the last iteration.
Passes == PassTrace([readBuffer |-> appended, calls |-> <<>>, running |-> TRUE])

\* The loop is about to run its body on a buffer that starts with the header byte.
AtCandidate(s) ==
    /\ s.running
    /\ s.readBuffer # <<>>
    /\ s.readBuffer[1] = FRAME_HEADER

\* buf starts with a header byte and holds all 5 + length bytes of its candidate.
CandidateComplete(buf) == Len(buf) >= 3 /\ Len(buf) >= 5 + buf[3]

\* The complete candidate at the front of buf has the tail byte and the checksum
\* of a frame.
CandidateValid(buf) ==
    /\ CandidateComplete(buf)
    /\ buf[5 + buf[3]] = FRAME_TAIL
    /\ (buf[2] + buf[3] + SumRange(buf, 4, 3 + buf[3]) + buf[4 + buf[3]]) % 256 = 0

\* C28: resynchronisation step. In every pass of processBuffer that finds the
\* header byte at the front of the buffer and a complete candidate behind it: when
\* the candidate's tail byte or checksum is wrong, the pass removes exactly the
\* first byte, dispatches nothing and the loop goes on with the remaining bytes;
\* when the candidate is valid, the pass removes exactly its 5 + length bytes and
\* makes one parseFrame call, with its cmdType and payload.
C28_ResyncStep ==
    \A tr \in {Passes} : \A k \in 1..(Len(tr) - 1) :
        \A buf \in {tr[k].readBuffer} : \A t \in {tr[k + 1]} :
            (AtCandidate(tr[k]) /\ CandidateComplete(buf)) =>
              /\ CandidateRejected(buf, 1) =>
                    /\ t.readBuffer = SubSeq(buf, 2, Len(buf))
                    /\ t.calls = tr[k].calls
                    /\ t.running
              /\ CandidateValid(buf) =>
                    /\ t.readBuffer = SubSeq(buf, 6 + buf[3], Len(buf))
                    /\ Len(t.calls) = Len(tr[k].calls) + 1
                    /\ t.calls[Len(t.calls)].cmdType = buf[2]
                    /\ t.calls[Len(t.calls)].data = SubSeq(buf, 4, 3 + buf[3])
                    /\ t.running
              /\ CandidateRejected(buf, 1) # CandidateValid(buf)

\* A candidate with a wrong checksum was at the front of the buffer with a valid
\* frame behind it: the first pass removed one byte, and the frame behind was
\* dispatched.
C28_Witness ==
    /\ scenario.kind = "corrupt"
    /\ Delivered
    /\ lastChunk = Stream(scenario)
    /\ CandidateRejected(appended, 1)
    /\ PassState(1).readBuffer = SubSeq(appended, 2, Len(appended))
    /\ PassState(1).running
    /\ Dispatches = scenario.follow
    /\ scenario.follow # <<>>
    /\ readBuffer = <<>>

\* C29: incomplete frame. In every pass of processBuffer that finds the header byte
\* at the front of the buffer with fewer bytes behind it than the length byte needs
\* (fewer than 3 bytes, or fewer than 5 + length), the loop stops, the pass makes no
\* parseFrame call and the buffer stays as it is; that buffer is what the iteration
\* leaves in readBuffer.
C29_IncompleteWaits ==
    \A tr \in {Passes} : \A k \in 1..(Len(tr) - 1) :
        \A buf \in {tr[k].readBuffer} : \A t \in {tr[k + 1]} :
            (AtCandidate(tr[k]) /\ ~CandidateComplete(buf)) =>
              /\ ~t.running
              /\ t.calls = tr[k].calls
              /\ t.readBuffer = buf
              /\ readBuffer = buf

\* The first four bytes of a frame, with a header byte in its payload, were
\* delivered in two chunks and wait in the buffer; nothing was dispatched.
C29_Witness ==
    /\ scenario.kind = "frame"
    /\ dispatched = <<>>
    /\ ~Delivered
    /\ Len(lastChunk) < 4
    /\ Len(readBuffer) = 4
    /\ readBuffer[1] = FRAME_HEADER
    /\ readBuffer[4] = FRAME_HEADER
    /\ readBuffer[3] = MaxPayloadLen
    /\ readBuffer = SubSeq(Stream(scenario), 1, 4)

\* The 1-based index of the first header byte of bytes (0: none).
FirstHeader(bytes) ==
    IF HasHeader(bytes, 1, Len(bytes))
    THEN CHOOSE i \in 1..Len(bytes) : bytes[i] = FRAME_HEADER /\ ~HasHeader(bytes, 1, i - 1)
    ELSE 0

\* C30: garbage before the header. When the buffer holds a header byte, the bytes
\* before the first one are discarded before parsing: processBuffer makes the calls
\* and leaves the buffer it makes and leaves when started on the bytes from that
\* header on, and what it leaves is a suffix of those bytes. When the buffer holds
\* no header byte, nothing is dispatched and the buffer is kept as it is when it
\* holds at most maxBufferSize / 2 = 512 bytes and is cut to its last 10 bytes
\* when it holds more.
C30_GarbageDiscarded ==
    LET h == FirstHeader(appended)
        first == PassState(1)
    IN  /\ h = 0 =>
              /\ first.calls = <<>>
              /\ ~first.running
              /\ Len(appended) <= 512 => readBuffer = appended
              /\ Len(appended) > 512 =>
                    readBuffer = SubSeq(appended, Len(appended) - 9, Len(appended))
              /\ first.readBuffer = readBuffer
        /\ h > 0 =>
              LET cut == SubSeq(appended, h, Len(appended))
              IN  /\ processBuffer(appended) = processBuffer(cut)
                  /\ Len(readBuffer) <= Len(cut)
                  /\ readBuffer = SubSeq(cut, Len(cut) - Len(readBuffer) + 1, Len(cut))

\* A buffer of 513 bytes without header was cut to 10 bytes; one of 512 bytes was
\* kept; 522 bytes of garbage in front of a frame were discarded and the frame
\* was dispatched.
C30_WitnessCut ==
    /\ FirstHeader(appended) = 0
    /\ Len(appended) = 513
    /\ Len(readBuffer) = 10

C30_WitnessKept ==
    /\ FirstHeader(appended) = 0
    /\ Len(appended) = 512
    /\ readBuffer = appended

C30_Witness ==
    /\ FirstHeader(appended) > 10
    /\ Len(dispatched) = 1
    /\ Dispatches = scenario.follow
    /\ readBuffer = <<>>

\* What n passes of the loop of processBuffer() from the loop state s on do: the
\* state they reach, how many of them ran the loop body (the others found the
\* loop stopped or the buffer empty), and whether every one that ran the body
\* stopped the loop or left a shorter buffer.  Split in halves to keep the
\* evaluation shallow.
RECURSIVE PassesObserved(_, _)
PassesObserved(s, n) ==
    IF n = 0 THEN [state |-> s, bodies |-> 0, progress |-> TRUE]
    ELSE IF n = 1
    THEN LET t == processBufferStep(s)
             body == s.running /\ s.readBuffer # <<>>
         IN  [state |-> t,
              bodies |-> IF body THEN 1 ELSE 0,
              progress |-> body => (~t.running \/ Len(t.readBuffer) < Len(s.readBuffer))]
    ELSE LET a == PassesObserved(s, n \div 2)
         IN  IF ~a.state.running THEN a
             ELSE LET b == PassesObserved(a.state, n - n \div 2)
                  IN  [state |-> b.state, bodies |-> a.bodies + b.bodies,
                       progress |-> a.progress /\ b.progress]

\* C31: forward progress. processBuffer() on the buffer appendToBuffer left
\* terminates: every pass of its loop body either stops the loop or leaves a
\* strictly shorter buffer, so after as many passes as the buffer has bytes the loop
\* has stopped or the buffer is empty, and the loop body ran at most that many
\* times; what the loop leaves is what the iteration left in readBuffer.
C31_ForwardProgress ==
    \A o \in {PassesObserved([readBuffer |-> appended, calls |-> <<>>, running |-> TRUE],
                              Len(appended) + 1)} :
        /\ o.progress
        /\ ~o.state.running
        /\ o.bodies <= Len(appended)
        /\ o.state.readBuffer = readBuffer
        /\ Len(readBuffer) <= Len(appended)

\* A chunk of 1025 header bytes: every pass skipped one byte of a candidate with a
\* wrong tail byte, more than 800 times, until the candidate was incomplete.
C31_Witness ==
    /\ scenario.kind = "burst"
    /\ Len(appended) = BurstHuge
    /\ Len(readBuffer) = 174
    /\ dispatched = <<>>
    /\ PassesObserved([readBuffer |-> appended, calls |-> <<>>, running |-> TRUE],
                      Len(appended) + 1).bodies > 800

(***************************************************************************)
(* The read loop and the session.                                          *)
(***************************************************************************)
\* C21: no dispatch after cancellation. Once disconnect() has been called, a chunk
\* that a read loop alive at that call receives afterwards hands no frame to
\* dataCallback or responseCallback, also when its read was already pending and
\* is fulfilled with data later.
C21_NoDispatchAfterDisconnect ==
    \A k \in 1..Len(feeds) : feeds[k].stopped => feeds[k].sinkCalls = 0

\* What disconnect() leaves, whichever of its three closing calls fail: the flags
\* false, the handles null and the buffer empty; and a successful connect() leaves
\* an empty buffer.
DisconnectResets ==
    [][ /\ Disconnect =>
            /\ ~isConnected' /\ ~isReading'
            /\ port' = 0 /\ reader' = 0 /\ ~writer'
            /\ readBuffer' = <<>>
        /\ (connects' = connects + 1 /\ isConnected') => readBuffer' = <<>>
      ]_vars

\* C22: state reset across sessions. After disconnect() the flags are false, the
\* handles null and the buffer empty, a following connect() starts from an empty
\* buffer, and so no bytes of an earlier session are combined with bytes of the
\* session that is open: a chunk that a loop which disconnect() found alive
\* appends while the manager is connected again was read on the reader of the
\* open session.
C22_SessionsSeparate ==
    \A k \in 1..Len(feeds) :
        (feeds[k].stopped /\ feeds[k].connected) => feeds[k].on = feeds[k].reader

\* Loop l was alive when disconnect() was called.
Stopped(l) == l \in 1..Len(loops) /\ loops[l].stopped

\* Loop l has returned.
Exited(l) == l \in 1..Len(loops) /\ loops[l].pc = "exited"

\* C23: termination of the read loop. A loop whose read was fulfilled with
\* done (end-of-stream) has returned and left isReading false at that moment; a
\* loop that was alive when disconnect() was called feeds no further chunk to the
\* decoder and eventually returns.
C23_LoopTerminates ==
    /\ [](\A l \in 1..Len(loops) : loops[l].done => loops[l].pc = "exited")
    /\ [](\A k \in 1..Len(feeds) : ~feeds[k].stopped)
    /\ \A l \in 1..MaxLoops : Stopped(l) ~> Exited(l)

\* The part of C23 about what follows disconnect(), alone: a loop that
\* disconnect() found alive eventually returns.
StoppedLoopReturns == \A l \in 1..MaxLoops : Stopped(l) ~> Exited(l)

\* The same for the sessions in which no connect() is called again.
StoppedLoopReturnsUnlessReconnected ==
    \A l \in 1..MaxLoops : Stopped(l) ~> (Exited(l) \/ isConnected)

\* The part of C23 about end-of-stream, alone.
DoneLoopHasReturned ==
    [][ \A l \in 1..MaxLoops :
          ReadDone(l) => (loops'[l].pc = "exited" /\ ~isReading' /\ feeds' = feeds) ]_vars

\* C24: a failed read is surfaced. A loop whose read was rejected with something
\* that is no cancellation has returned (it does not wait and read again), and
\* errorCallback has been invoked for the failure.
C24_ReadErrorSurfaced ==
    \A l \in 1..Len(loops) :
        loops[l].failed => (loops[l].pc = "exited" /\ errorCalls >= 1)

\* C25: single reader. At most one readLoop() invocation is alive (awaiting a read
\* or in its 100 ms wait) at any time.
C25_SingleReader == Cardinality(ActiveLoops) <= 1

\* Two loops are alive although every reader.cancel() settled the pending reads:
\* the first was in its 100 ms wait when disconnect() was called.
TwoLoopsAfterWait ==
    /\ Cardinality(ActiveLoops) = 2
    /\ feeds = <<>>
    /\ loops[1].failed /\ loops[1].pc = "sleep" /\ loops[1].stopped
    /\ loops[2].pc = "read" /\ loops[2].on = reader

(***************************************************************************)
(* The enable handshake.                                                   *)
(***************************************************************************)
\* bytes has the shape of a frame of sendFrame.
FrameShaped(bytes) ==
    /\ Len(bytes) >= MIN_FRAME_LEN
    /\ bytes[1] = FRAME_HEADER
    /\ bytes[Len(bytes)] = FRAME_TAIL

\* C26: enable at session start. A connect() that opens the port returns true and
\* leaves isConnected true, also when the write of enable() is rejected; when the
\* write is fulfilled it puts exactly the 13 text bytes of "frame_enable\n" on the
\* transport, which are no header/checksum/tail frame, and it makes no sendFrame
\* call and no errorCallback call. Every other write is a frame of a sendFrame
\* call, so in the writes of a session the text command occurs only as the first
\* one, before every binary frame.
C26_EnableHandshake ==
    /\ [][ /\ (connects' = connects + 1 /\ lastConnect'.opened) =>
                /\ lastConnect'.returned
                /\ isConnected'
                /\ written' = IF lastConnect'.enableAccepted
                              THEN Append(written, FrameEnableBytes) ELSE written
                /\ sends' = sends
                /\ errorCalls' = errorCalls
           /\ (connects' = connects /\ written' # written) =>
                /\ Len(sends') = Len(sends) + 1
                /\ written' = Append(written, written'[Len(written')])
                /\ FrameShaped(written'[Len(written')])
         ]_vars
    /\ [](/\ ~FrameShaped(FrameEnableBytes)
          /\ Len(FrameEnableBytes) = 13
          /\ \A i \in 1..Len(written) :
               /\ written[i] = FrameEnableBytes \/ FrameShaped(written[i])
               /\ (i > sessionStart /\ written[i] = FrameEnableBytes)
                     => i = sessionStart + 1)

\* In the second session the text command was written first and a binary frame
\* after it.
C26_Witness ==
    /\ isConnected
    /\ connects = 2
    /\ lastConnect.returned /\ lastConnect.enableAccepted
    /\ sessionStart = 1
    /\ Len(written) = 3
    /\ written[2] = FrameEnableBytes
    /\ FrameShaped(written[3])

\* The write of enable() was rejected: connect() returned true, the manager is
\* connected and nothing was written.
C26_WitnessRejected ==
    /\ lastConnect.opened /\ ~lastConnect.enableAccepted
    /\ lastConnect.returned
    /\ isConnected
    /\ written = <<>>

(***************************************************************************)
(* Sinks that raise.                                                       *)
(***************************************************************************)
\* The calls made so far to the sinks that raise.
RaisedCalls ==
    (IF "data" \in faulty THEN Len(dataCalls) ELSE 0)
    + (IF "response" \in faulty THEN Len(responseCalls) ELSE 0)

\* C27: sink failure isolation. When dataCallback or responseCallback raises for a
\* validated frame, errorCallback is invoked once for that call; the frame is
\* consumed all the same (parseFrame is called once for it, and its bytes leave
\* the buffer), the statistics are updated as for any frame, and the frames behind
\* it in the same chunk are dispatched: once the stream is delivered, the
\* parseFrame calls are exactly the frames sent, each reading with a full payload
\* and each acknowledgment has reached its sink once, and the buffer is empty.
C27_SinkFailureContained ==
    /\ errorCalls = RaisedCalls
    /\ Len(routed) = Len(dispatched)
    /\ \A i \in 1..Len(routed) : Len(routed[i].data) + Len(routed[i].response) <= 1
    /\ packetCount = Len(dataCalls)
    /\ Delivered =>
         /\ Dispatches = scenario.follow
         /\ readBuffer = <<>>
         /\ Len(dataCalls) = Cardinality(FullCalls)
         /\ Len(responseCalls) = Cardinality(AckCalls)

\* A reading and the acknowledgment behind it arrived in one chunk; both sinks
\* raised, errorCallback was invoked twice, and both frames were consumed.
C27_Witness ==
    /\ faulty = {"data", "response"}
    /\ Delivered
    /\ lastChunk = Stream(scenario)
    /\ Len(dispatched) = 2
    /\ dispatched[1].cmdType = CMD_SENSOR_DATA
    /\ Len(dataCalls) = 1
    /\ Len(responseCalls) = 1
    /\ errorCalls = 2
    /\ readBuffer = <<>>

(***************************************************************************)
(* Commands on a manager that is not connected.                            *)
(***************************************************************************)
\* The calls of sends made while isConnected was false or writer was null.
DisconnectedCalls == {i \in 1..Len(sends) : ~sends[i].connected}

\* C32 (as stated): every call of sendFrame or of a command method built on it that
\* is made while isConnected is false or writer is null writes nothing, returns
\* false and invokes errorCallback; enable() in that state writes nothing and
\* returns false.
C32_AlwaysReturnsFalse ==
    \A i \in DisconnectedCalls :
        /\ sends[i].writes = <<>>
        /\ ~sends[i].thrown
        /\ ~sends[i].returned
        /\ sends[i].method # "enable" => sends[i].errors = 1

\* C32 (as amended): no write while disconnected. A call made while isConnected is
\* false or writer is null leaves the writes of the transport as they are; when it
\* reaches sendFrame (getStatus(), and setProtocol(id) with id in 0..2) it returns
\* false and invokes errorCallback once; setProtocol(id) with another id throws
\* before it reaches sendFrame and invokes no callback; enable() returns false
\* and invokes no callback.
C32_NoWriteWhileDisconnected ==
    /\ [](\A i \in DisconnectedCalls :
            /\ sends[i].writes = <<>>
            /\ sends[i].settled = "none"
            /\ sends[i].thrown = (sends[i].method = "setProtocol"
                                  /\ sends[i].cmdType = CMD_SET_PROTOCOL
                                  /\ sends[i].data = <<>>)
            /\ ~sends[i].thrown => ~sends[i].returned
            /\ sends[i].errors = IF sends[i].thrown \/ sends[i].method = "enable"
                                 THEN 0 ELSE 1)
    /\ [][ (Len(sends') = Len(sends) + 1 /\ ~(isConnected /\ writer)) =>
              /\ written' = written
              /\ errorCalls' = errorCalls + sends'[Len(sends')].errors
              /\ ~sends'[Len(sends')].connected ]_vars

\* getStatus() was called on a manager whose isConnected is true and whose writer
\* is null, after something had been written: it returned false, invoked
\* errorCallback and wrote nothing.
C32_Witness ==
    /\ isConnected
    /\ ~writer
    /\ Len(written) >= 1
    /\ Len(sends) = 1
    /\ sends[1].method = "getStatus"
    /\ ~sends[1].connected
    /\ ~sends[1].returned
    /\ sends[1].errors = 1
    /\ errorCalls = 1

\* enable() was called while disconnect() was at work, the writer still set: it
\* returned false.
C32_WitnessEnable ==
    /\ ~isConnected
    /\ writer
    /\ inFlight.disconnect = "cancel"
    /\ Len(sends) = 1
    /\ sends[1].method = "enable"
    /\ ~sends[1].returned
    /\ errorCalls = 0

(***************************************************************************)
(* sendFrame followed across its await.  The call builds the frame and     *)
(* hands it to writer.write in the same turn; the stream takes the writes  *)
(* in the order they were issued and fulfils or rejects them one by one.   *)
(* pendingWrites is that queue: per call in flight, the write it awaits,   *)
(* the writes it has still to issue and those already fulfilled.  A second *)
(* sendFrame may be called while the first one is suspended.               *)
(***************************************************************************)
MaxWrites == 2

\* Payload lengths of the concurrent calls: none, one byte, one byte too many.
WriteLengths == {0, 1, MAX_DATA_LENGTH + 1}

\* sendFrame(cmdType, data) up to its await: the throw of an unconnected manager
\* or of a payload that is too long is caught at once; otherwise the first
\* write is issued and the call is suspended.
SendFrameCalled(cmdType, data) ==
    /\ Len(sends) + Len(pendingWrites) < MaxWrites
    /\ IF notConnected(isConnected, writer) \/ exceedsMaxDataLength(Len(data))
       THEN \E r \in {sendFrame(isConnected, writer, cmdType, data, FALSE)} :
               /\ sends' = Append(sends, [method |-> "sendFrame", thrown |-> FALSE,
                                          cmdType |-> cmdType, data |-> data,
                                          connected |-> isConnected /\ writer,
                                          returned |-> r.returned,
                                          writes |-> r.writes,
                                          settled |-> r.settled,
                                          errors |-> r.errors,
                                          concurrent |-> FALSE])
               /\ errorCalls' = errorCalls + r.errors
               /\ shown' = afterErrorSink(shown, r.errors)
               /\ UNCHANGED pendingWrites
       ELSE \E ws \in {frameWrites(sendFrameBytes(cmdType, data))} :
               /\ pendingWrites' = Append(pendingWrites,
                                          [cmdType |-> cmdType, data |-> data,
                                           write |-> Head(ws), rest |-> Tail(ws),
                                           writes |-> <<>>,
                                           concurrent |-> pendingWrites # <<>>])
               /\ UNCHANGED <<sends, errorCalls, shown>>
    /\ UNCHANGED <<isConnected, writer, connects, written, now, faulty, reader,
                   port, lastConnect, sessionStart, inFlight>>
    /\ UNCHANGED decoderVars
    /\ UNCHANGED dispatchVars
    /\ UNCHANGED loopVars

\* The stream settles the oldest write.  Fulfilled: its bytes are on the wire,
\* and the call issues its next write or returns true.  Rejected: the catch
\* block of the call notifies errorCallback and the call returns false.
WriteSettles(ok) ==
    /\ pendingWrites # <<>>
    /\ \E h \in {Head(pendingWrites)} :
         IF ok
         THEN /\ written' = Append(written, h.write)
              /\ IF h.rest = <<>>
                 THEN /\ sends' = Append(sends,
                                     [method |-> "sendFrame", thrown |-> FALSE,
                                      cmdType |-> h.cmdType, data |-> h.data,
                                      connected |-> TRUE, returned |-> TRUE,
                                      writes |-> Append(h.writes, h.write),
                                      settled |-> "fulfilled", errors |-> 0,
                                      concurrent |-> h.concurrent])
                      /\ pendingWrites' = Tail(pendingWrites)
                 ELSE /\ pendingWrites' =
                             Append(Tail(pendingWrites),
                                    [h EXCEPT !.write = Head(h.rest),
                                              !.rest = Tail(h.rest),
                                              !.writes = Append(h.writes, h.write)])
                      /\ UNCHANGED sends
              /\ UNCHANGED <<errorCalls, shown>>
         ELSE /\ sends' = Append(sends,
                             [method |-> "sendFrame", thrown |-> FALSE,
                              cmdType |-> h.cmdType, data |-> h.data,
                              connected |-> TRUE, returned |-> FALSE,
                              writes |-> h.writes,
                              settled |-> "rejected", errors |-> 1,
                              concurrent |-> h.concurrent])
              /\ pendingWrites' = Tail(pendingWrites)
              /\ errorCalls' = errorCalls + 1
              /\ shown' = afterErrorSink(shown, 1)
              /\ UNCHANGED written
    /\ UNCHANGED <<isConnected, writer, connects, now, faulty, reader, port,
                   lastConnect, sessionStart, inFlight>>
    /\ UNCHANGED decoderVars
    /\ UNCHANGED dispatchVars
    /\ UNCHANGED loopVars

\* A connected session in which the device sends telemetry while commands are
\* sent, two of them at a time.
InitWrites == InitWith(ReaderScenarios)

NextWrites ==
    \/ \E n \in SessionSizes : Feed(n)
    \/ \E cmdType \in SendCmds, len \in WriteLengths :
          SendFrameCalled(cmdType, SendPayload(len))
    \/ \E ok \in BOOLEAN : WriteSettles(ok)

SpecWrites == InitWrites /\ [][NextWrites]_vars

\* The frames of the sendFrame calls that returned true, in the order they
\* returned.
FramesSent ==
    LET ok == SelectSeq(sends, LAMBDA c : c.method = "sendFrame" /\ c.returned)
    IN  [i \in 1..Len(ok) |-> sendFrameBytes(ok[i].cmdType, ok[i].data)]

\* C33 as stated: outbound frames are atomic and independent of decoding.
\* Every sendFrame call that returned true made exactly one write, which holds
\* its complete frame; what the wire carried after the enable command of
\* connect() is, write by write, the whole frames of the calls that returned
\* true, so that the bytes of two calls in flight together are never mixed;
\* and no step of sendFrame changes the accumulation buffer, the statistics or
\* what the sinks of the decoder received.
C33_FramesAreWritten ==
    /\ \A i \in 1..Len(sends) :
          sends[i].returned =>
             sends[i].writes = <<sendFrameBytes(sends[i].cmdType, sends[i].data)>>
    /\ written = <<FrameEnableBytes>> \o FramesSent

C33_AtomicAndIndependent ==
    /\ []C33_FramesAreWritten
    /\ [][(sends' # sends \/ pendingWrites' # pendingWrites \/ written' # written)
             => /\ UNCHANGED decoderVars
                /\ UNCHANGED dispatchVars]_vars

\* Two calls that were suspended at their writes together have both returned
\* true with different frames, while the buffer held an unfinished frame and a
\* response had been dispatched.
C33_Witness ==
    /\ Len(sends) = 2
    /\ sends[1].returned /\ sends[2].returned
    /\ sends[2].concurrent
    /\ sends[1].writes # sends[2].writes
    /\ readBuffer # <<>>
    /\ responseCalls # <<>>

(***************************************************************************)
(* Streams of several frames.                                              *)
(***************************************************************************)
\* Three frames that differ from one another; the payload of the last one holds
\* the header byte.
OrderFrames ==
    { [cmdType |-> CMD_STATUS, data |-> <<>>],
      [cmdType |-> CMD_STATUS, data |-> <<RESULT_SUCCESS, 5>>],
      [cmdType |-> CMD_SET_PROTOCOL, data |-> <<FRAME_HEADER>>] }

\* What precedes them: nothing, noise without header, or a stray header byte.
OrderGarbage == { <<>>, <<86, 0>>, <<FRAME_HEADER>> }

\* The three frames in every order, after the noise.
OrderScenarios ==
    {[kind |-> "order", pre |-> g, corrupt |-> NoFrame, follow |-> <<f1, f2, f3>>] :
        g \in OrderGarbage,
        f1 \in OrderFrames, f2 \in OrderFrames, f3 \in OrderFrames}
    \ {sc \in [kind : {"order"}, pre : OrderGarbage, corrupt : {NoFrame},
               follow : [1..3 -> OrderFrames]] :
          \E i, j \in 1..3 : i # j /\ sc.follow[i] = sc.follow[j]}

InitOrder == InitWith(OrderScenarios)

SpecOrder == InitOrder /\ [][Next]_vars

\* The least k >= from with w at indices k .. k + Len(w) - 1 of bytes, or 0.
FirstOccurrence(w, bytes, from) ==
    LET ks == {k \in from..(Len(bytes) - Len(w) + 1) :
                  SubSeq(bytes, k, k + Len(w) - 1) = w}
    IN  IF ks = {} THEN 0 ELSE CHOOSE k \in ks : \A j \in ks : k <= j

\* The frames dispatched from the i-th on lie in bytes one after the other, in
\* the order of their dispatch, none starting before index from.
RECURSIVE InOrderFrom(_, _, _)
InOrderFrom(i, bytes, from) ==
    IF i > Len(dispatched) THEN TRUE
    ELSE \E k \in {FirstOccurrence(dispatched[i].window, bytes, from)} :
            /\ k # 0
            /\ InOrderFrom(i + 1, bytes, k + Len(dispatched[i].window))

\* C34: order preservation. However the stream is cut into chunks, the frames
\* dispatched so far lie in the bytes delivered so far one after the other in
\* the order of their dispatch: each starts after the end of the one dispatched
\* before it, so no frame is dispatched before a frame whose bytes start earlier,
\* and none is dispatched twice.
C34_OrderPreserved ==
    InOrderFrom(1, SubSeq(Stream(scenario), 1, DeliveredCount), 1)

\* After a stray header byte, all three frames have been dispatched, the last
\* call having dispatched at least two of them from a buffer that held bytes of
\* an earlier chunk.
C34_Witness ==
    /\ scenario.kind = "order"
    /\ scenario.pre = <<FRAME_HEADER>>
    /\ Delivered
    /\ Dispatches = scenario.follow
    /\ Len(processBuffer(appended).calls) >= 2
    /\ Len(lastChunk) < Len(appended)

(***************************************************************************)
(* The buffer between two chunks.                                          *)
(***************************************************************************)
\* The buffer starts with the header byte of a candidate that is not complete:
\* fewer than 5 bytes, or fewer than 5 + its length byte.
IncompleteCandidate(buf) ==
    /\ Len(buf) >= 1
    /\ buf[1] = FRAME_HEADER
    /\ \/ Len(buf) < MIN_FRAME_LEN
       \/ Len(buf) < MIN_FRAME_LEN + buf[3]

\* C36: buffer shape at rest. After every appendToBuffer + processBuffer pair the
\* buffer is empty; or it holds no header byte and at most 512 bytes; or it
\* starts with the header byte of an incomplete candidate (fewer than 5 bytes,
\* or fewer than 5 + its length byte) and is at most 259 bytes long.  In each
\* case tryParseFrame finds no complete frame at its front.
C36_BufferShapeAtRest ==
    /\ \/ readBuffer = <<>>
       \/ /\ readBuffer # <<>>
          /\ ~HasHeader(readBuffer, 1, Len(readBuffer))
          /\ 2 * Len(readBuffer) <= maxBufferSize
       \/ /\ IncompleteCandidate(readBuffer)
          /\ Len(readBuffer) <= MIN_FRAME_LEN + MAX_DATA_LENGTH - 1
    /\ tryParseFrame(readBuffer).frameLength = 0
    /\ tryParseFrame(readBuffer).calls = <<>>

\* A candidate of at least 5 bytes is waiting for the bytes its length byte
\* announces.
C36_Witness ==
    /\ lastChunk # <<>>
    /\ IncompleteCandidate(readBuffer)
    /\ Len(readBuffer) >= MIN_FRAME_LEN
    /\ Len(readBuffer) > KeepOnTrim

\* Exactly 512 bytes without header are kept whole.
C36_WitnessHeaderless ==
    /\ lastChunk # <<>>
    /\ 2 * Len(readBuffer) = maxBufferSize
    /\ ~HasHeader(readBuffer, 1, Len(readBuffer))

(***************************************************************************)
(* Chunks of at most half the capacity.                                    *)
(***************************************************************************)
\* Noise followed by one or two frames.
HalfScenarios ==
    {[kind |-> "half",
      pre |-> [i \in 1..BurstLen |-> BurstPattern(name, i)],
      corrupt |-> NoFrame,
      follow |-> fs] :
        name \in BurstNames,
        fs \in {<<StatusFrame>>,
                <<[cmdType |-> CMD_STATUS, data |-> <<RESULT_SUCCESS, 5>>],
                  StatusFrame>>}}

InitHalf == InitWith(HalfScenarios)

\* The transport delivers half the capacity, a smaller burst, all that is left
\* when that is no more than half the capacity, or, near the end of the stream,
\* a piece of at most MaxPiece bytes.
HalfSizes ==
    {maxBufferSize \div 2, BurstSmall}
    \cup (IF 2 * Len(incoming) <= maxBufferSize THEN {Len(incoming)} ELSE {})
    \cup (IF Len(incoming) <= BurstSmall THEN 1..MaxPiece ELSE {})

NextHalf == \E n \in HalfSizes : Feed(n)

SpecHalf == InitHalf /\ [][NextHalf]_vars

\* C35: chunking independence without overflow. When every chunk is at most 512
\* bytes long, appendToBuffer never takes its overflow reset, and the frames
\* dispatched so far are those that one call on an empty decoder dispatches for
\* all the bytes delivered so far, wherever the chunk boundaries fell.
C35_ChunkingIndependence ==
    /\ ~overflowed
    /\ overflowWarnings = 0
    /\ dispatched = OneCall(SubSeq(Stream(scenario), 1, DeliveredCount)).calls

\* Two frames after noise have been dispatched, the last one completed by a chunk
\* that held only a part of it, after the buffer had been filled to its capacity
\* without overflow.
C35_Witness ==
    /\ scenario.kind = "half"
    /\ Delivered
    /\ Len(dispatched) = 2
    /\ Len(lastChunk) < MIN_FRAME_LEN
    /\ Len(appended) > Len(lastChunk)

\* A chunk of 512 bytes has been appended to a buffer of 512 bytes.
C35_WitnessFull ==
    /\ Len(appended) = maxBufferSize
    /\ 2 * Len(lastChunk) = maxBufferSize
    /\ ~overflowed

(***************************************************************************)
(* Telemetry of both kinds, acknowledgments and short notifications in one *)
(* stream, with resetStatistics() called at any time.                      *)
(***************************************************************************)
NumberingScenarios ==
    {[kind |-> "numbering", pre |-> <<>>, corrupt |-> NoFrame, follow |-> fs] :
        fs \in [1..3 -> SessionFrames]}

InitNumbering == InitWith(NumberingScenarios)

NextNumbering ==
    \/ \E n \in SessionSizes : Feed(n)
    \/ ResetStatistics

SpecNumbering == InitNumbering /\ [][NextNumbering]_vars

\* The readings a step hands to the telemetry sink are numbered from the value
\* packetCount has before the step, and packetCount grows by their number.
NumberedFrom(count, before, after, countAfter) ==
    /\ Len(after) >= Len(before)
    /\ countAfter = count + (Len(after) - Len(before))
    /\ \A i \in (Len(before) + 1)..Len(after) :
          after[i].packetNumber = count + (i - Len(before) - 1)

\* C37: packet numbering. Sensor and mapping readings draw their packetNumber
\* from the one counter packetCount: every reading handed to the telemetry sink
\* carries the number of readings handed over since construction or since the
\* last resetStatistics(), and packetCount is that number after it; a frame
\* that hands over no reading (an acknowledgment, a notification with a short
\* payload) leaves packetCount as it was; and packetCount changes in no other
\* way than by a reading or by resetStatistics() setting it to 0.
C37_EveryFrameCounted ==
    \A i \in 1..Len(routed) :
        LET e == routed[i]
        IN  IF e.data = <<>>
            THEN e.after.packetCount = e.before.packetCount
            ELSE /\ Len(e.data) = 1
                 /\ e.data[1].packetNumber = e.before.packetCount
                 /\ e.after.packetCount = e.before.packetCount + 1

C37_PacketNumbering ==
    /\ []C37_EveryFrameCounted
    /\ [][\/ NumberedFrom(packetCount, dataCalls, dataCalls', packetCount')
          \/ (packetCount' = 0 /\ dataCalls' = dataCalls)]_vars

\* Three frames were dispatched: a sensor reading numbered 0, a frame that
\* handed over nothing, and a mapping reading numbered 1.
C37_Witness ==
    /\ scenario.kind = "numbering"
    /\ Len(dispatched) = 3
    /\ Len(dataCalls) = 2
    /\ dispatched[1].cmdType = CMD_SENSOR_DATA
    /\ dispatched[2].cmdType # CMD_MAPPING_DATA
    /\ dispatched[3].cmdType = CMD_MAPPING_DATA
    /\ dataCalls[1].packetNumber = 0
    /\ dataCalls[2].packetNumber = 1
    /\ packetCount = 2

\* resetStatistics() was called between two readings: both carry number 0.
C37_WitnessReset ==
    /\ scenario.kind = "numbering"
    /\ Len(dataCalls) = 3
    /\ dataCalls[1].packetNumber = 0
    /\ dataCalls[2].packetNumber = 1
    /\ dataCalls[3].packetNumber = 0
    /\ packetCount = 1

(***************************************************************************)
(* The handles and the display while connect() and disconnect() overlap.   *)
(***************************************************************************)
\* C38: session handle consistency. Whenever isConnected is true, this.port,
\* this.reader and this.writer are non-null and the reader is the one obtained
\* from this.port, however the steps of connect() and disconnect() interleave.
C38_HandlesConsistent ==
    isConnected => (port # 0 /\ reader # 0 /\ writer /\ reader = port)

\* A connect() that began while disconnect() was waiting has opened its port;
\* disconnect() then ran to its end: isConnected is true and every handle is
\* null.
C38_HandlesLost ==
    /\ isConnected
    /\ inFlight.disconnect = "idle"
    /\ port = 0
    /\ reader = 0
    /\ ~writer

\* No connect() and no disconnect() is in flight.
AtRest == inFlight.connect = "idle" /\ inFlight.disconnect = "idle"

\* C39: the display matches the manager. Whenever no connect() and no
\* disconnect() is in flight, the application shows 'connected' exactly when
\* isConnected is true, after any connect, disconnect, command send or
\* error-sink notification.
C39_DisplayMatches ==
    AtRest => ((shown = "connected") <=> isConnected)

\* A command whose write was rejected on a connected manager, no other call
\* being in flight: the display says 'disconnected', the handles are in place
\* and isConnected is true.
C39_ShownDisconnectedWhileConnected ==
    /\ AtRest
    /\ isConnected
    /\ writer
    /\ reader # 0
    /\ shown = "disconnected"
    /\ Len(sends) >= 1
    /\ sends[Len(sends)].settled = "rejected"

\* disconnect() ran to its end while connect() was waiting for the write of
\* enable(): connect() returned true afterwards, and the display says
\* 'connected' on a manager that is not.
C39_ShownConnectedWhileDisconnected ==
    /\ AtRest
    /\ ~isConnected
    /\ shown = "connected"

=============================================================================
